---- MODULE Spec2Model ----
(***************************************************************************)
(* TicketApp: the browser-local persistence layer (services/db.ts, an      *)
(* IndexedDB database with the object stores 'users' and 'receipts') and   *)
(* the authentication service built on it (services/auth.ts), and the      *)
(* application shell that calls them (App.tsx).                            *)
(*                                                                         *)
(* Strings are sequences of one-character strings, so that toLowerCase(),  *)
(* trim() and the password regular expression are computed character by    *)
(* character.  SHA-256 is modelled as a collision-free digest: the digest  *)
(* of a text is a value that is equal for equal texts only.                *)
(* Receipt ids are numbers that stand for the id strings in IndexedDB key  *)
(* order.  The error messages are written without their accents.           *)
(*                                                                         *)
(* A call is a caller's walk through the awaits of an async function; each *)
(* IndexedDB request is one step.  In SpecFault a request can fail and a   *)
(* transaction can abort after its request has succeeded; in the other     *)
(* specifications requests succeed or fail as the stores' keys decide.     *)
(*                                                                         *)
(* Spec          the auth service, one call at a time                      *)
(* SpecReceipts  the receipt operations, one call at a time                *)
(* SpecConc      overlapping register and resetPassword calls, under the   *)
(*               add-only createUser and the earlier get-then-add one      *)
(* SpecPolicy    the password policy on a bounded set of passwords         *)
(* SpecMigrate   openDB on a database of any version                       *)
(* SpecFault     the latest build on a storage that can fail               *)
(* SpecEarlier   the auth service under each definition of auth.ts         *)
(* SpecRecovery  recovery for users with and without a security question   *)
(* SpecBlocked   openDB while another tab holds the database open          *)
(* SpecApp       the App component: its handlers and the user's clicks     *)
(* SpecLoader    the handlers that show the loader, with fair steps        *)
(***************************************************************************)
EXTENDS Integers, Sequences, FiniteSets, TLC

(* ------------------------------ bounds --------------------------------- *)

\* Date.now() at a registration returns a value in 1..MaxClock
MaxClock == 2

\* the createdAt of a receipt is in 1..MaxCreatedAt
MaxCreatedAt == 2

\* receipt ids are 1..MaxReceiptId
MaxReceiptId == 3

\* number of asynchronous callers that may have a call in flight
NumProcs == 2

\* the passwords put to the policy end in up to MaxSuffix free characters
MaxSuffix == 3

Procs == 1..NumProcs

(* ------------------------------ strings -------------------------------- *)

UpperLetters ==
  <<"A","B","C","D","E","F","G","H","I","J","K","L","M",
    "N","O","P","Q","R","S","T","U","V","W","X","Y","Z">>

LowerLetters ==
  <<"a","b","c","d","e","f","g","h","i","j","k","l","m",
    "n","o","p","q","r","s","t","u","v","w","x","y","z">>

Digits == {"0","1","2","3","4","5","6","7","8","9"}

\* white space and line terminators removed by String.prototype.trim
WhiteSpace == {" ", "\t", "\n", "\r"}

\* characters the regular expression metacharacter '.' does not match
LineTerminators == {"\n", "\r"}

Range(s) == {s[i] : i \in 1..Len(s)}

UpperSet == Range(UpperLetters)

LowerSet == Range(LowerLetters)

IsUpper(c) == c \in UpperSet

IsLower(c) == c \in LowerSet

IsDigit(c) == c \in Digits

\* [\W_]: everything except the letters and digits of \w, plus '_'
IsSymbol(c) == ~IsUpper(c) /\ ~IsLower(c) /\ ~IsDigit(c)

\* the lower-case letter of every upper-case letter
LowerOf ==
  [c \in UpperSet |->
     LowerLetters[CHOOSE i \in 1..Len(UpperLetters) : UpperLetters[i] = c]]

ToLowerChar(c) == IF IsUpper(c) THEN LowerOf[c] ELSE c

\* String.prototype.toLowerCase
ToLowerCase(s) == [i \in 1..Len(s) |-> ToLowerChar(s[i])]

\* the upper-case letter of every lower-case letter
UpperOf ==
  [c \in LowerSet |->
     UpperLetters[CHOOSE i \in 1..Len(LowerLetters) : LowerLetters[i] = c]]

ToUpperChar(c) == IF IsLower(c) THEN UpperOf[c] ELSE c

\* String.prototype.toUpperCase
ToUpperCase(s) == [i \in 1..Len(s) |-> ToUpperChar(s[i])]

RECURSIVE TrimStart(_)
TrimStart(s) ==
  IF s # <<>> /\ Head(s) \in WhiteSpace THEN TrimStart(Tail(s)) ELSE s

RECURSIVE TrimEnd(_)
TrimEnd(s) ==
  IF s # <<>> /\ s[Len(s)] \in WhiteSpace
    THEN TrimEnd(SubSeq(s, 1, Len(s) - 1))
    ELSE s

\* String.prototype.trim
Trim(s) == TrimEnd(TrimStart(s))

(* ------------------------------ inputs --------------------------------- *)

Email_a == <<"a","@","x",".","c","o","m">>

Email_A == <<"A","@","X",".","c","o","m"," ">>

Email_b == <<" ","b","@","x",".","c","o","m">>

Emails == {Email_a, Email_A, Email_b}

Pw_Passw0rd == <<"P","a","s","s","w","0","r","d","!">>

Pw_passw0rd == <<"p","a","s","s","w","0","r","d","!">>

Pw_NewPass1 == <<"N","e","w","P","a","s","s","1","!">>

Pw_NoSymbol == <<"A","b","c","d","e","f","g","1">>

Passwords == {Pw_Passw0rd, Pw_passw0rd, Pw_NewPass1}

Pw_Abcdef1 == <<"A","b","c","d","e","f","1","!">>

Pw_abcdefgh == <<"a","b","c","d","e","f","g","h">>

Pw_ABCDEFG1 == <<"A","B","C","D","E","F","G","1">>

\* one character of each kind the policy tells apart: lower, upper, digit,
\* punctuation, underscore, space, line terminator
PolicyAlphabet == {"a", "A", "1", "!", "_", " ", "\n"}

\* the strings over PolicyAlphabet of length up to n
RECURSIVE PolicyStrings(_)
PolicyStrings(n) ==
  IF n = 0 THEN {<<>>}
  ELSE LET shorter == PolicyStrings(n - 1)
       IN  shorter \cup {Append(t, c) : t \in shorter, c \in PolicyAlphabet}

\* k times the character c
Pad(c, k) == [i \in 1..k |-> c]

\* the passwords put to the policy: five or six equal letters followed by
\* up to MaxSuffix free characters, and the passwords named above
PolicyInputs ==
  {Pad(c, k) \o t : c \in {"a", "A"}, k \in {5, 6}, t \in PolicyStrings(MaxSuffix)}
    \cup {Pw_Abcdef1, Pw_abcdefgh, Pw_ABCDEFG1, Pw_NoSymbol}
    \cup Passwords

Ans_Rex == <<"R","e","x"," ">>

Ans_rex == <<"r","e","x">>

Ans_cat == <<"c","a","t">>

Ans_CAT == <<" ","C","A","T">>

\* answers given at registration
RegAnswers == {Ans_Rex, Ans_cat}

\* answers tried during recovery
Answers == {Ans_Rex, Ans_rex, Ans_CAT}

Name_Ann == <<" ","A","n","n">>

Question_pet == <<"p","e","t">>

Store_ZARA == <<"Z","A","R","A">>

ReceiptIds == 1..MaxReceiptId

Clock == 1..MaxClock

CreatedAts == 1..MaxCreatedAt

(* ------------------------------ records -------------------------------- *)

\* the value 'undefined' of a lookup that found nothing
Undefined == [undefined |-> TRUE]

\* a ReceiptData that is not there
NoReceipt == [id |-> 0, userEmail |-> <<>>, storeName |-> <<>>, createdAt |-> 0]

\* interface User
User(email, name, passwordHash, createdAt, securityQuestion, securityAnswerHash) ==
  [email |-> email, name |-> name, passwordHash |-> passwordHash,
   createdAt |-> createdAt, securityQuestion |-> securityQuestion,
   securityAnswerHash |-> securityAnswerHash]

\* interface ReceiptData (the fields the persistence layer reads, and the store name)
ReceiptData(id, userEmail, storeName, createdAt) ==
  [id |-> id, userEmail |-> userEmail, storeName |-> storeName,
   createdAt |-> createdAt]

ReceiptInputs ==
  {ReceiptData(i, Trim(ToLowerCase(e)), Store_ZARA, t) :
     i \in ReceiptIds, e \in {Email_a, Email_b}, t \in CreatedAts}

\* the arguments of a call in flight
NoCall ==
  [op |-> "none", email |-> <<>>, password |-> <<>>, answer |-> <<>>,
   receipt |-> NoReceipt, id |-> 0, ioError |-> "", aborted |-> FALSE]

\* the security answer a successful register call was given, as typed
Registration(c) == [answer |-> c.answer]

\* the settled promise of a call
NoResult == [state |-> "pending", error |-> "", value |-> <<>>]

Resolved(v) == [state |-> "fulfilled", error |-> "", value |-> v]

Rejected(msg) == [state |-> "rejected", error |-> msg, value |-> <<>>]

ErrPolicyRegister == "La contrasena no cumple los requisitos de seguridad."

ErrPolicyReset == "La contrasena no cumple los requisitos."

ErrExists == "El usuario ya existe"

ErrNotFound == "Usuario no encontrado."

ErrPassword == "Contrasena incorrecta."

ErrNoRecovery == "Este usuario no tiene configurada la recuperacion."

ErrAnswer == "Respuesta de seguridad incorrecta."

\* DOMExceptions of a request or transaction the storage could not serve
StorageErrors == {"QuotaExceededError", "UnknownError"}

\* the TypeError of a method call on undefined
TypeError == "TypeError"

\* the DOMException of an open request for a version below the stored one
VersionError == "VersionError"

\* the DOMException a failed store.add carries
ConstraintError == "ConstraintError"

(* --------------------------- pure functions ---------------------------- *)

\* a digest that lower-cases and trims its input first
hashString_lower(text) == [sha256 |-> Trim(ToLowerCase(text))]

\* the earlier hashString of auth.ts: text.toLowerCase().trim(), then SHA-256
hashStringEarlier(text) == [sha256 |-> Trim(ToLowerCase(text))]

\* auth.ts hashString: the SHA-256 digest of the text exactly as given
hashString(text) == [sha256 |-> text]

\* a policy that does not ask for an uppercase letter
PASSWORD_REGEX_noUpper(password) ==
  /\ \A i \in 1..Len(password) : password[i] \notin LineTerminators
  /\ \E i \in 1..Len(password) : IsLower(password[i])
  /\ \E i \in 1..Len(password) : IsDigit(password[i])
  /\ \E i \in 1..Len(password) : IsSymbol(password[i])
  /\ Len(password) >= 8

\* a policy that does not ask for a symbol
PASSWORD_REGEX_noSymbol(password) ==
  /\ \A i \in 1..Len(password) : password[i] \notin LineTerminators
  /\ \E i \in 1..Len(password) : IsLower(password[i])
  /\ \E i \in 1..Len(password) : IsUpper(password[i])
  /\ \E i \in 1..Len(password) : IsDigit(password[i])
  /\ Len(password) >= 8

\* /^(?=.*[a-z])(?=.*[A-Z])(?=.*\d)(?=.*[\W_]).{8,}$/ .test(password)
PASSWORD_REGEX(password) ==
  /\ \A i \in 1..Len(password) : password[i] \notin LineTerminators
  /\ \E i \in 1..Len(password) : IsLower(password[i])
  /\ \E i \in 1..Len(password) : IsUpper(password[i])
  /\ \E i \in 1..Len(password) : IsDigit(password[i])
  /\ \E i \in 1..Len(password) : IsSymbol(password[i])
  /\ Len(password) >= 8

\* an email key that keeps its surrounding white space
CleanEmail_noTrim(email) == ToLowerCase(email)

\* an email key that keeps the letter case
CleanEmail_noLower(email) == Trim(email)

\* email.toLowerCase().trim()
CleanEmail(email) == Trim(ToLowerCase(email))

\* an answer that keeps its surrounding white space
CleanAnswer_noTrim(answer) == ToLowerCase(answer)

\* securityAnswer.toLowerCase().trim()
CleanAnswer(answer) == Trim(ToLowerCase(answer))

\* !x for a string-valued or absent field
Falsy(x) == x = Undefined \/ x = <<>>

(* ------------------------------- state --------------------------------- *)

VARIABLES
  users,      \* object store 'users', keyPath 'email': key -> User
  receipts,   \* object store 'receipts', keyPath 'id': key -> ReceiptData
  dbImpl,     \* which db.ts the build contains: "v4", "v3" or "v2" (createUser gets, then adds)
  authImpl,   \* which auth.ts the build contains: "current" or "earlier"
  schema,     \* the object stores and indexes the database holds
  dbVersion,  \* the version the database was last opened at, 0 before it exists
  usersTxn,   \* the caller whose readwrite transaction on 'users' is open, or 0
  pc,         \* per caller: the await it is suspended at
  call,       \* per caller: the call in flight and its arguments
  local,      \* per caller: the User record the call holds (newUser, user, updatedUser)
  result,     \* per caller: the promise the call returned
  curPassword,  \* history: key -> the password of the last register/resetPassword that wrote it
  registered,   \* history: key -> the security answer given at registration
  verified,     \* history: keys for which verifySecurityAnswer has succeeded
  view,               \* App state: 'AUTH', 'DASHBOARD', 'STORE_DETAIL', 'RECEIPT_DETAIL'
  currentUser,        \* App state 'user': the logged-in User, or null
  receiptsState,      \* App state 'receipts': the in-memory list of receipts
  selectedStoreName,  \* App state: a store name, or null
  selectedReceipt,    \* App state: a receipt, or null
  isProcessing,       \* App state: the blocking loader is shown
  handler,            \* per caller: the App event handler running on it
  uuids,              \* the ids crypto.randomUUID() has returned
  otherTabs           \* the other tabs that hold a connection to the database

vars ==
  <<users, receipts, dbImpl, authImpl, schema, dbVersion, usersTxn, pc, call,
    local, result, curPassword, registered, verified, view, currentUser,
    receiptsState, selectedStoreName, selectedReceipt, isProcessing, handler,
    uuids, otherTabs>>

\* the state of the App component and of its running event handlers
shell ==
  <<view, currentUser, receiptsState, selectedStoreName, selectedReceipt,
    isProcessing, handler, uuids>>

\* the build and the database structure, which only openDB changes
install == <<dbImpl, authImpl, schema, dbVersion, otherTabs>>

stores == <<users, receipts>>

history == <<curPassword, registered, verified>>

EmptyStore == [k \in {} |-> Undefined]

\* no event handler is running on the caller
NoHandler ==
  [name |-> "none", at |-> "", email |-> <<>>, password |-> <<>>,
   id |-> 0, remainingInStore |-> 0, newReceipt |-> NoReceipt]

\* a put that drops every other record
Put_replaceAll(store, key, value) == [k \in {key} |-> value]

\* a put that keeps the record a key already has
Put_insertOnly(store, key, value) ==
  [k \in DOMAIN store \cup {key} |-> IF k \in DOMAIN store THEN store[k] ELSE value]

\* objectStore.put(value): insert or overwrite under the key
Put(store, key, value) ==
  [k \in DOMAIN store \cup {key} |-> IF k = key THEN value ELSE store[k]]

\* objectStore.get(key): the record, or undefined
Get(store, key) == IF key \in DOMAIN store THEN store[key] ELSE Undefined

\* a delete that clears the store
Delete_all(store, key) == EmptyStore

\* objectStore.delete(key): succeeds whether or not the key is there
Delete(store, key) == [k \in DOMAIN store \ {key} |-> store[k]]

(* ------------------------------- schema -------------------------------- *)

Store_receipts == "receipts"

Index_createdAt == "receipts.createdAt"

Index_userEmail == "receipts.userEmail"

Store_users == "users"

Builds == {"v2", "v3", "v4"}

\* const DB_VERSION of each db.ts
DB_VERSION(build) ==
  CASE build = "v2" -> 2
    [] build = "v3" -> 3
    [] build = "v4" -> 4

\* request.onupgradeneeded of db.ts v2: the structures afterwards
onupgradeneeded_v2(s) ==
  LET s1 == IF Store_receipts \notin s
              THEN s \cup {Store_receipts, Index_createdAt}
              ELSE s
  IN  IF Store_users \notin s1 THEN s1 \cup {Store_users} ELSE s1

\* request.onupgradeneeded of db.ts v3 and v4: the structures afterwards
onupgradeneeded_v4(s) ==
  LET s1 == IF Store_receipts \notin s
              THEN s \cup {Store_receipts, Index_createdAt}
              ELSE s
      s2 == IF Index_userEmail \notin s1 THEN s1 \cup {Index_userEmail} ELSE s1
  IN  IF Store_users \notin s2 THEN s2 \cup {Store_users} ELSE s2

onupgradeneeded(build, s) ==
  IF build = "v2" THEN onupgradeneeded_v2(s) ELSE onupgradeneeded_v4(s)

\* the build whose DB_VERSION is v
BuildAt(v) == CHOOSE b \in Builds : DB_VERSION(b) = v

\* The structures a database at version v can hold. Version 0 is no database.
\* The db.ts of the versions below 2 is not among the sources: it had the
\* receipts store ("users" is new in v2), with or without the createdAt
\* index. From version 2 on, a database is what the onupgradeneeded of
\* that version made of a database of a lower version.
SchemasAt[v \in 0..DB_VERSION("v4")] ==
  IF v = 0 THEN {{}}
  ELSE IF v < DB_VERSION("v2")
         THEN {{Store_receipts}, {Store_receipts, Index_createdAt}}
         ELSE {onupgradeneeded(BuildAt(v), s) :
                 s \in UNION {SchemasAt[w] : w \in 0..(v - 1)}}

\* the database after the build has opened it for the first time
Installed(build) ==
  /\ otherTabs = {}
  /\ dbImpl = build
  /\ schema = onupgradeneeded(build, {})
  /\ dbVersion = DB_VERSION(build)

\* the user record register(" Ann", "a@x.com", "Passw0rd!", "pet", "Rex ")
\* stores when Date.now() is 1
SampleUser ==
  User(CleanEmail(Email_a), Trim(Name_Ann), hashString(Pw_Passw0rd), 1,
       Question_pet, hashString(CleanAnswer(Ans_Rex)))

\* a receipt saved for that user
SampleReceipt == ReceiptData(1, CleanEmail(Email_a), Store_ZARA, 1)

InitCommon ==
  /\ usersTxn = 0
  /\ pc = [p \in Procs |-> "idle"]
  /\ call = [p \in Procs |-> NoCall]
  /\ local = [p \in Procs |-> Undefined]
  /\ result = [p \in Procs |-> NoResult]
  /\ verified = {}
  /\ view = "AUTH"
  /\ currentUser = Undefined
  /\ receiptsState = <<>>
  /\ selectedStoreName = Undefined
  /\ selectedReceipt = Undefined
  /\ isProcessing = FALSE
  /\ handler = [p \in Procs |-> NoHandler]
  /\ uuids = {}

NoUsers ==
  /\ users = EmptyStore
  /\ curPassword = EmptyStore
  /\ registered = EmptyStore

\* The auth service on a fresh users store; the receipts store is empty or
\* holds a receipt saved earlier
Init ==
  /\ InitCommon
  /\ Installed("v4")
  /\ authImpl = "current"
  /\ NoUsers
  /\ receipts \in {EmptyStore, Put(EmptyStore, SampleReceipt.id, SampleReceipt)}

\* The receipt operations on a fresh receipts store; the users store is
\* empty or holds a user registered earlier
InitReceipts ==
  /\ InitCommon
  /\ Installed("v4")
  /\ authImpl = "current"
  /\ receipts = EmptyStore
  /\ \/ NoUsers
     \/ /\ users = Put(EmptyStore, SampleUser.email, SampleUser)
        /\ curPassword = Put(EmptyStore, SampleUser.email, Pw_Passw0rd)
        /\ registered = Put(EmptyStore, SampleUser.email, [answer |-> Ans_Rex])

\* the caller of the application's single thread of user interaction
MainProcs == {CHOOSE p \in Procs : \A q \in Procs : p <= q}

Settle(p, r) ==
  /\ pc' = [pc EXCEPT ![p] = "done"]
  /\ result' = [result EXCEPT ![p] = r]

Await(p, label) ==
  /\ pc' = [pc EXCEPT ![p] = label]
  /\ UNCHANGED result

(* ------------------------- persistence layer --------------------------- *)

\* openDB(): indexedDB.open(DB_NAME, DB_VERSION) is requested
openDB(p) ==
  /\ pc[p] = "idle"
  /\ call' = [call EXCEPT ![p] = [NoCall EXCEPT !.op = "openDB"]]
  /\ Await(p, "openDB")
  /\ UNCHANGED <<users, receipts, install, shell, usersTxn, local, history>>

\* the open request of openDB is served: onerror rejects with the request's
\* error when the database is at a higher version; otherwise
\* An open request for a higher version waits until every other connection
\* to the database is closed. Each of them is sent 'versionchange'; the
\* db.ts of the other tab sets no onversionchange and never calls close(),
\* so its connections stay open until the tab is closed. 'blocked' is then
\* fired at the request, which has no onblocked: nothing is settled.
Blocked == dbVersion < DB_VERSION(dbImpl) /\ otherTabs # {}

\* onupgradeneeded runs if the database is at a lower version, and
\* onsuccess resolves
openDBRequest(p) ==
  /\ pc[p] = "openDB"
  /\ ~Blocked
  /\ IF dbVersion > DB_VERSION(dbImpl)
       THEN /\ Settle(p, Rejected(VersionError))
            /\ UNCHANGED <<schema, dbVersion>>
       ELSE /\ schema' = IF dbVersion < DB_VERSION(dbImpl)
                           THEN onupgradeneeded(dbImpl, schema)
                           ELSE schema
            /\ dbVersion' = DB_VERSION(dbImpl)
            /\ Settle(p, Resolved(<<>>))
  /\ UNCHANGED <<users, receipts, dbImpl, authImpl, otherTabs, shell,
                 usersTxn, call, local, history>>

\* a request on 'users' runs only while no other caller's readwrite
\* transaction on that store is open (IndexedDB transaction scheduling)
UsersFree(p) == usersTxn \in {0, p}

\* a createUser that writes with store.put: an existing record is overwritten
createUser_put(p) ==
  /\ pc[p] = "createUser"
  /\ dbImpl = "v4"
  /\ UsersFree(p)
  /\ LET user == local[p]
     IN  /\ users' = Put(users, user.email, user)
         /\ curPassword' = Put(curPassword, user.email, call[p].password)
         /\ registered' = Put(registered, user.email, Registration(call[p]))
         /\ Settle(p, Resolved(<<user>>))
  /\ UNCHANGED <<receipts, install, shell, usersTxn, call, local, verified>>

\* a createUser that passes the error of store.add on as it is
createUser_rawError(p) ==
  /\ pc[p] = "createUser"
  /\ dbImpl = "v4"
  /\ UsersFree(p)
  /\ LET user == local[p]
     IN  IF user.email \in DOMAIN users
           THEN /\ Settle(p, Rejected(ConstraintError))
                /\ UNCHANGED <<users, curPassword, registered>>
           ELSE /\ users' = Put(users, user.email, user)
                /\ curPassword' = Put(curPassword, user.email, call[p].password)
                /\ registered' = Put(registered, user.email, Registration(call[p]))
                /\ Settle(p, Resolved(<<user>>))
  /\ UNCHANGED <<receipts, install, shell, usersTxn, call, local, verified>>

\* db.createUser, latest build: one store.add(user) in its own transaction;
\* a ConstraintError becomes the domain error
createUser(p) ==
  /\ pc[p] = "createUser"
  /\ dbImpl = "v4"
  /\ UsersFree(p)
  /\ LET user == local[p]
         err == IF user.email \in DOMAIN users THEN ConstraintError ELSE ""
     IN  IF err = ConstraintError
           THEN /\ Settle(p, Rejected(ErrExists))
                /\ UNCHANGED <<users, curPassword, registered>>
           ELSE /\ users' = Put(users, user.email, user)
                /\ curPassword' = Put(curPassword, user.email, call[p].password)
                /\ registered' = Put(registered, user.email, Registration(call[p]))
                /\ Settle(p, Resolved(<<user>>))
  /\ UNCHANGED <<receipts, install, shell, usersTxn, call, local, verified>>

\* db.createUser, build of schema version 2/3: store.get(user.email) opens the
\* readwrite transaction ...
createUserGet(p) ==
  /\ pc[p] = "createUser"
  /\ dbImpl = "v2"
  /\ usersTxn = 0
  /\ usersTxn' = p
  /\ local' = [local EXCEPT ![p] =
                 [newUser |-> local[p], checkResult |-> Get(users, local[p].email)]]
  /\ Await(p, "createUser_checked")
  /\ UNCHANGED <<users, receipts, install, shell, call, history>>

\* ... and checkRequest.onsuccess rejects or issues store.add(user) in the
\* same transaction, whose ConstraintError would be passed on as it is
createUserAdd(p) ==
  /\ pc[p] = "createUser_checked"
  /\ usersTxn = p
  /\ usersTxn' = 0
  /\ LET user == local[p].newUser
     IN  /\ local' = [local EXCEPT ![p] = user]
         /\ IF local[p].checkResult # Undefined
              THEN /\ Settle(p, Rejected(ErrExists))
                   /\ UNCHANGED <<users, curPassword, registered>>
              ELSE IF user.email \in DOMAIN users
                THEN /\ Settle(p, Rejected(ConstraintError))
                     /\ UNCHANGED <<users, curPassword, registered>>
                ELSE /\ users' = Put(users, user.email, user)
                     /\ curPassword' = Put(curPassword, user.email, call[p].password)
                     /\ registered' = Put(registered, user.email, Registration(call[p]))
                     /\ Settle(p, Resolved(<<user>>))
  /\ UNCHANGED <<receipts, install, shell, call, verified>>

\* a lookup under the email as typed
getUser_rawEmail(p, next) ==
  /\ UsersFree(p)
  /\ local' = [local EXCEPT ![p] = Get(users, call[p].email)]
  /\ Await(p, next)
  /\ UNCHANGED <<users, receipts, install, shell, usersTxn, call, history>>

\* db.getUser(email) as awaited by login, verifySecurityAnswer and resetPassword
getUser(p, next) ==
  /\ UsersFree(p)
  /\ local' = [local EXCEPT ![p] = Get(users, CleanEmail(call[p].email))]
  /\ Await(p, next)
  /\ UNCHANGED <<users, receipts, install, shell, usersTxn, call, history>>

\* db.getUser(email) called on its own, up to its request
getUserCall(p, email) ==
  /\ pc[p] = "idle"
  /\ call' = [call EXCEPT ![p] = [NoCall EXCEPT !.op = "getUser", !.email = email]]
  /\ Await(p, "getUser_get")
  /\ UNCHANGED <<users, receipts, install, shell, usersTxn, local, history>>

\* a getUser that rejects when no record has the key
getUserGet_throws(p) ==
  /\ pc[p] = "getUser_get"
  /\ UsersFree(p)
  /\ IF call[p].email \in DOMAIN users
       THEN Settle(p, Resolved(<<users[call[p].email]>>))
       ELSE Settle(p, Rejected(ErrNotFound))
  /\ UNCHANGED <<users, receipts, install, shell, usersTxn, call, local, history>>

\* store.get(email) and request.onsuccess: resolve(request.result)
getUserGet(p) ==
  /\ pc[p] = "getUser_get"
  /\ UsersFree(p)
  /\ Settle(p, Resolved(<<Get(users, call[p].email)>>))
  /\ UNCHANGED <<users, receipts, install, shell, usersTxn, call, local, history>>

\* an updateUser that resolves without writing
updateUser_noop(store, user) == store

\* an updateUser that replaces the content of the store by the one record
updateUser_replaceAll(store, user) == Put(EmptyStore, user.email, user)

\* db.updateUser(user): store.put(user)
updateUser(store, user) == Put(store, user.email, user)

(* ---------------------------- auth service ----------------------------- *)

\* await hashString(password), as register, login and resetPassword of the
\* build call it
HashPassword(password) ==
  IF authImpl = "earlier" THEN hashStringEarlier(password)
                          ELSE hashString(password)

\* the hash of a security answer: the earlier build hands the answer to its
\* hashString, the current one hashes securityAnswer.toLowerCase().trim()
HashAnswer(answer) ==
  IF authImpl = "earlier" THEN hashStringEarlier(answer)
                          ELSE hashString(CleanAnswer(answer))

\* register(name, email, password, securityQuestion, securityAnswer), up to
\* its call of db.createUser; 'now' is Date.now()
register(p, name, email, password, securityQuestion, securityAnswer, now) ==
  /\ pc[p] = "idle"
  /\ call' = [call EXCEPT ![p] =
       [NoCall EXCEPT !.op = "register", !.email = email,
                      !.password = password, !.answer = securityAnswer]]
  /\ IF ~PASSWORD_REGEX(password)
       THEN /\ Settle(p, Rejected(ErrPolicyRegister))
            /\ UNCHANGED local
       ELSE IF securityAnswer = Undefined
       THEN \* securityAnswer.toLowerCase() on a missing argument
            /\ Settle(p, Rejected(TypeError))
            /\ UNCHANGED local
       ELSE LET cleanEmail == CleanEmail(email)
                hashedPassword == HashPassword(password)
                hashedAnswer == HashAnswer(securityAnswer)
                newUser == User(cleanEmail, Trim(name), hashedPassword, now,
                                securityQuestion, hashedAnswer)
            IN  /\ local' = [local EXCEPT ![p] = newUser]
                /\ Await(p, "createUser")
  /\ UNCHANGED <<users, receipts, install, shell, usersTxn, history>>

\* PASSWORD_REGEX.test(password) on its own, as the registration form calls
\* it before auth.register
PASSWORD_REGEX_test(p, password) ==
  /\ pc[p] = "idle"
  /\ call' = [call EXCEPT ![p] =
       [NoCall EXCEPT !.op = "PASSWORD_REGEX.test", !.password = password]]
  /\ Settle(p, Resolved(<<PASSWORD_REGEX(password)>>))
  /\ UNCHANGED <<users, receipts, install, shell, usersTxn, local, history>>

\* login(email, password), up to its call of db.getUser
login(p, email, password) ==
  /\ pc[p] = "idle"
  /\ call' = [call EXCEPT ![p] =
       [NoCall EXCEPT !.op = "login", !.email = email, !.password = password]]
  /\ Await(p, "login_getUser")
  /\ UNCHANGED <<users, receipts, install, shell, usersTxn, local, history>>

loginGetUser(p) ==
  /\ pc[p] = "login_getUser"
  /\ getUser(p, "login_compare")

\* what login does with the record db.getUser gave it
loginOutcome(user, password) ==
  IF user = Undefined
    THEN Rejected(ErrNotFound)
    ELSE LET inputHash == HashPassword(password)
         IN  IF inputHash # user.passwordHash
               THEN Rejected(ErrPassword)
               ELSE Resolved(<<user>>)

\* a login that locks the account when the password is wrong
loginCompare_lockout(p) ==
  /\ pc[p] = "login_compare"
  /\ LET r == loginOutcome(local[p], call[p].password)
     IN  /\ Settle(p, r)
         /\ users' = IF r = Rejected(ErrPassword)
                       THEN Put(users, local[p].email,
                                [local[p] EXCEPT !.passwordHash = Undefined])
                       ELSE users
  /\ UNCHANGED <<receipts, install, shell, usersTxn, call, local, history>>

loginCompare(p) ==
  /\ pc[p] = "login_compare"
  /\ Settle(p, loginOutcome(local[p], call[p].password))
  /\ UNCHANGED <<users, receipts, install, shell, usersTxn, call, local, history>>

\* verifySecurityAnswer(email, answer), up to its call of db.getUser
verifySecurityAnswer(p, email, answer) ==
  /\ pc[p] = "idle"
  /\ call' = [call EXCEPT ![p] =
       [NoCall EXCEPT !.op = "verifySecurityAnswer", !.email = email,
                      !.answer = answer]]
  /\ Await(p, "verify_getUser")
  /\ UNCHANGED <<users, receipts, install, shell, usersTxn, local, history>>

verifyGetUser(p) ==
  /\ pc[p] = "verify_getUser"
  /\ getUser(p, "verify_compare")

\* what verifySecurityAnswer does with the record db.getUser gave it
verifyOutcome(user, answer) ==
  IF user = Undefined
    THEN Rejected(ErrNotFound)
    ELSE IF Falsy(user.securityAnswerHash)
      THEN Rejected(ErrNoRecovery)
      ELSE LET inputAnswerHash == HashAnswer(answer)
           IN  IF inputAnswerHash # user.securityAnswerHash
                 THEN Rejected(ErrAnswer)
                 ELSE Resolved(<<user>>)

verifyCompare(p) ==
  /\ pc[p] = "verify_compare"
  /\ LET r == verifyOutcome(local[p], call[p].answer)
     IN  /\ Settle(p, r)
         /\ verified' = IF r.state = "fulfilled"
                          THEN verified \cup {local[p].email}
                          ELSE verified
  /\ UNCHANGED <<users, receipts, install, shell, usersTxn, call, local,
                 curPassword, registered>>

\* a resetPassword that does not test the policy
resetPassword_noPolicy(p, email, newPassword) ==
  /\ pc[p] = "idle"
  /\ call' = [call EXCEPT ![p] =
       [NoCall EXCEPT !.op = "resetPassword", !.email = email,
                      !.password = newPassword]]
  /\ Await(p, "reset_getUser")
  /\ UNCHANGED <<users, receipts, install, shell, usersTxn, local, history>>

\* resetPassword(email, newPassword), up to its call of db.getUser
resetPassword(p, email, newPassword) ==
  /\ pc[p] = "idle"
  /\ call' = [call EXCEPT ![p] =
       [NoCall EXCEPT !.op = "resetPassword", !.email = email,
                      !.password = newPassword]]
  /\ IF ~PASSWORD_REGEX(newPassword)
       THEN Settle(p, Rejected(ErrPolicyReset))
       ELSE Await(p, "reset_getUser")
  /\ UNCHANGED <<users, receipts, install, shell, usersTxn, local, history>>

\* a resetPassword that writes a record for an email that has none
resetGetUser_upsert(p) ==
  /\ pc[p] = "reset_getUser"
  /\ UsersFree(p)
  /\ LET user == Get(users, CleanEmail(call[p].email))
         newHash == HashPassword(call[p].password)
         updatedUser ==
           IF user = Undefined
             THEN User(CleanEmail(call[p].email), <<>>, newHash, MaxClock,
                       Undefined, Undefined)
             ELSE [user EXCEPT !.passwordHash = newHash]
     IN  /\ local' = [local EXCEPT ![p] = updatedUser]
         /\ Await(p, "reset_updateUser")
  /\ UNCHANGED <<users, receipts, install, shell, usersTxn, call, history>>

\* resetPassword after db.getUser: not found, or build updatedUser
resetGetUser(p) ==
  /\ pc[p] = "reset_getUser"
  /\ UsersFree(p)
  /\ LET user == Get(users, CleanEmail(call[p].email))
     IN  IF user = Undefined
           THEN /\ Settle(p, Rejected(ErrNotFound))
                /\ UNCHANGED local
           ELSE LET newHash == HashPassword(call[p].password)
                    updatedUser == [user EXCEPT !.passwordHash = newHash]
                IN  /\ local' = [local EXCEPT ![p] = updatedUser]
                    /\ Await(p, "reset_updateUser")
  /\ UNCHANGED <<users, receipts, install, shell, usersTxn, call, history>>

\* resetPassword's await db.updateUser(updatedUser)
resetUpdateUser(p) ==
  /\ pc[p] = "reset_updateUser"
  /\ UsersFree(p)
  /\ users' = updateUser(users, local[p])
  /\ curPassword' = Put(curPassword, local[p].email, call[p].password)
  /\ Settle(p, Resolved(<<>>))
  /\ UNCHANGED <<receipts, install, shell, usersTxn, call, local, registered, verified>>

(* ------------------------------ receipts ------------------------------- *)

RECURSIVE Ascending(_)
\* the keys of a set in IndexedDB key order
Ascending(S) ==
  IF S = {} THEN <<>>
  ELSE LET m == CHOOSE x \in S : \A y \in S : x <= y
       IN  <<m>> \o Ascending(S \ {m})

\* index('userEmail').getAll(IDBKeyRange.only(userEmail)): the records whose
\* userEmail is the key, in primary key order
IndexGetAll(store, userEmail) ==
  LET ids == Ascending({k \in DOMAIN store : store[k].userEmail = userEmail})
  IN  [i \in 1..Len(ids) |-> store[ids[i]]]

\* the comparator of an ascending sort
CompareCreatedAt_asc(a, b) == a.createdAt - b.createdAt

\* the comparator (a, b) => b.createdAt - a.createdAt
CompareCreatedAt(a, b) == b.createdAt - a.createdAt

\* one step of a stable sort: r goes behind every element that does not
\* compare greater than it
InsertSorted(sorted, r) ==
  LET n == Cardinality({i \in 1..Len(sorted) : CompareCreatedAt(sorted[i], r) <= 0})
  IN  SubSeq(sorted, 1, n) \o <<r>> \o SubSeq(sorted, n + 1, Len(sorted))

RECURSIVE SortFrom(_, _)
SortFrom(sorted, rest) ==
  IF rest = <<>> THEN sorted
  ELSE SortFrom(InsertSorted(sorted, Head(rest)), Tail(rest))

\* results.sort((a, b) => b.createdAt - a.createdAt)
SortResults(results) == SortFrom(<<>>, results)

\* what getReceiptsByUser(userEmail) resolves with on a given store
ReceiptsByUser(store, userEmail) == SortResults(IndexGetAll(store, userEmail))

\* saveReceipt(receipt), up to its request
saveReceipt(p, receipt) ==
  /\ pc[p] = "idle"
  /\ call' = [call EXCEPT ![p] =
       [NoCall EXCEPT !.op = "saveReceipt", !.receipt = receipt]]
  /\ Await(p, "saveReceipt_put")
  /\ UNCHANGED <<users, receipts, install, shell, usersTxn, local, history>>

\* store.put(receipt) and request.onsuccess
saveReceiptPut(p) ==
  /\ pc[p] = "saveReceipt_put"
  /\ receipts' = Put(receipts, call[p].receipt.id, call[p].receipt)
  /\ Settle(p, Resolved(<<>>))
  /\ UNCHANGED <<users, install, shell, usersTxn, call, local, history>>

\* getReceiptsByUser(userEmail), up to its request
getReceiptsByUser(p, userEmail) ==
  /\ pc[p] = "idle"
  /\ call' = [call EXCEPT ![p] =
       [NoCall EXCEPT !.op = "getReceiptsByUser", !.email = userEmail]]
  /\ Await(p, "getReceipts_getAll")
  /\ UNCHANGED <<users, receipts, install, shell, usersTxn, local, history>>

\* index.getAll(...) and request.onsuccess: sort, resolve
getReceiptsGetAll(p) ==
  /\ pc[p] = "getReceipts_getAll"
  /\ Settle(p, Resolved(ReceiptsByUser(receipts, call[p].email)))
  /\ UNCHANGED <<users, receipts, install, shell, usersTxn, call, local, history>>

\* deleteReceipt(id), up to its request
deleteReceipt(p, id) ==
  /\ pc[p] = "idle"
  /\ call' = [call EXCEPT ![p] = [NoCall EXCEPT !.op = "deleteReceipt", !.id = id]]
  /\ Await(p, "deleteReceipt_delete")
  /\ UNCHANGED <<users, receipts, install, shell, usersTxn, local, history>>

\* store.delete(id) and request.onsuccess
deleteReceiptDelete(p) ==
  /\ pc[p] = "deleteReceipt_delete"
  /\ receipts' = Delete(receipts, call[p].id)
  /\ Settle(p, Resolved(<<>>))
  /\ UNCHANGED <<users, install, shell, usersTxn, call, local, history>>

(* --------------------------- storage faults ---------------------------- *)

\* the awaits at which a request of the latest db.ts is outstanding
DbSteps ==
  {"createUser", "login_getUser", "verify_getUser", "reset_getUser",
   "reset_updateUser", "getUser_get", "saveReceipt_put", "getReceipts_getAll",
   "deleteReceipt_delete"}

\* those of them that write
WriteSteps ==
  {"createUser", "reset_updateUser", "saveReceipt_put", "deleteReceipt_delete"}

\* a failed request whose error the auth function replaces by "not found"
storageFails_notFound(p, err) ==
  /\ pc[p] \in DbSteps
  /\ call' = [call EXCEPT ![p].ioError = err]
  /\ Settle(p, Rejected(ErrNotFound))
  /\ UNCHANGED <<users, receipts, install, shell, usersTxn, local, history>>

\* The request the caller waits for fails with a storage error, or openDB
\* before it does: request.onerror rejects the promise with request.error,
\* nothing is written; the auth function awaiting the db call has no catch,
\* so its own promise rejects with the same error
storageFails(p, err) ==
  /\ pc[p] \in DbSteps
  /\ call' = [call EXCEPT ![p].ioError = err]
  /\ Settle(p, Rejected(err))
  /\ UNCHANGED <<users, receipts, install, shell, usersTxn, local, history>>

\* what the call resolves with once its write request has succeeded
WriteResolves(p) ==
  IF pc[p] = "createUser" THEN Resolved(<<local[p]>>) ELSE Resolved(<<>>)

\* The write request succeeds, so request.onsuccess resolves the promise,
\* and the transaction then aborts instead of committing (the quota is
\* exceeded at commit): the write is rolled back; no handler is set on the
\* transaction, so nothing reaches the caller
commitAborts(p) ==
  /\ pc[p] \in WriteSteps
  /\ pc[p] = "createUser" => local[p].email \notin DOMAIN users
  /\ UsersFree(p)
  /\ call' = [call EXCEPT ![p].aborted = TRUE]
  /\ Settle(p, WriteResolves(p))
  /\ UNCHANGED <<users, receipts, install, shell, usersTxn, local, history>>

(* -------------------------- application shell -------------------------- *)

\* what the Gemini response gives as storeName
RawStoreNames == {<<" ","Z","a","r","a">>}

\* a receipt of another user, saved before the application started
OtherReceipt == ReceiptData(2, CleanEmail(Email_b), Store_ZARA, MaxCreatedAt)

\* the ids of the receipts saved before the application started
SavedBefore == {SampleReceipt.id, OtherReceipt.id}

\* the ids crypto.randomUUID() can still return
FreshIds == ReceiptIds \ (uuids \cup SavedBefore)

\* crypto.randomUUID(): an id never returned before; which one it is makes no
\* difference to any caller, so it is the first of them
randomUUID == CHOOSE id \in FreshIds : \A other \in FreshIds : id <= other

\* the elements of a list
ListItems(list) == {list[i] : i \in 1..Len(list)}

\* index('createdAt').getAll(): the records in the order of the index, by
\* createdAt and then by primary key
RECURSIVE ByCreatedAt(_)
ByCreatedAt(rs) ==
  IF rs = {} THEN <<>>
  ELSE LET first == CHOOSE r \in rs : \A q \in rs :
                      \/ r.createdAt < q.createdAt
                      \/ r.createdAt = q.createdAt /\ r.id <= q.id
       IN  <<first>> \o ByCreatedAt(rs \ {first})

\* Array.prototype.reverse
Reverse(list) == [i \in 1..Len(list) |-> list[Len(list) + 1 - i]]

\* what getAllReceipts() resolves with on a given store
AllReceipts(store) == Reverse(ByCreatedAt({store[k] : k \in DOMAIN store}))

\* getAllReceipts(), up to its request
getAllReceipts(p) ==
  /\ pc[p] = "idle"
  /\ call' = [call EXCEPT ![p] = [NoCall EXCEPT !.op = "getAllReceipts"]]
  /\ Await(p, "getAllReceipts_getAll")
  /\ UNCHANGED <<users, receipts, install, shell, usersTxn, local, history>>

\* index.getAll() and request.onsuccess: resolve(results.reverse())
getAllReceiptsGetAll(p) ==
  /\ pc[p] = "getAllReceipts_getAll"
  /\ Settle(p, Resolved(AllReceipts(receipts)))
  /\ UNCHANGED <<users, receipts, install, shell, usersTxn, call, local, history>>

\* the loader (fixed inset-0) covers every control while isProcessing; a
\* control can be used when its view is rendered and the loader is not
Clickable(v) == view = v /\ ~isProcessing

\* no handler runs on the caller
Free(p) == handler[p] = NoHandler /\ pc[p] = "idle"

\* the caller handleDelete runs on: it shows no loader, so it runs beside
\* the handler of the main caller; one handleDelete is in flight at a time
BackgroundProcs == {CHOOSE p \in Procs \ MainProcs : TRUE}

\* A handler that shows the loader starts on the main caller, which is free:
\* the loader is up for as long as such a handler runs.
StartsOn(p, callers) == p \in callers /\ Free(p)

\* Date.now(): not before the createdAt of any receipt stored
Now == {t \in CreatedAts : \A k \in DOMAIN receipts : receipts[k].createdAt <= t}

\* the handler takes the settled promise of the call it awaited
Resume(p) ==
  /\ pc' = [pc EXCEPT ![p] = "idle"]
  /\ call' = [call EXCEPT ![p] = NoCall]
  /\ local' = [local EXCEPT ![p] = Undefined]
  /\ result' = [result EXCEPT ![p] = NoResult]

\* the handler on p goes on to its next await
HandlerAt(p, at) == handler' = [handler EXCEPT ![p].at = at]

\* the handler on p has returned
HandlerEnds(p) == handler' = [handler EXCEPT ![p] = NoHandler]

\* the handler on p waits at 'at' and the promise it awaits has settled
Awaited(p, at) == handler[p].at = at /\ pc[p] = "done"

\* handleLogin, up to its await of auth.login
handleLogin(p, authEmail, authPass) ==
  /\ Clickable("AUTH")
  /\ StartsOn(p, MainProcs)
  /\ isProcessing' = TRUE
  /\ handler' = [handler EXCEPT ![p] =
       [NoHandler EXCEPT !.name = "handleLogin", !.at = "login",
                         !.email = authEmail, !.password = authPass]]
  /\ UNCHANGED <<stores, install, usersTxn, pc, call, local, result, history,
                 view, currentUser, receiptsState, selectedStoreName,
                 selectedReceipt, uuids>>

\* handleRegister, from the password that passes PASSWORD_REGEX.test (any
\* other only sets authError) up to its await of auth.register
handleRegister(p, authName, authEmail, authPass) ==
  /\ Clickable("AUTH")
  /\ StartsOn(p, MainProcs)
  /\ PASSWORD_REGEX(authPass)
  /\ isProcessing' = TRUE
  /\ handler' = [handler EXCEPT ![p] =
       [NoHandler EXCEPT !.name = "handleRegister", !.at = "register",
                         !.email = authEmail, !.password = authPass]]
  /\ UNCHANGED <<stores, install, usersTxn, pc, call, local, result, history,
                 view, currentUser, receiptsState, selectedStoreName,
                 selectedReceipt, uuids>>

\* auth.login(authEmail, authPass), or auth.register(authName, authEmail,
\* authPass) with its three arguments
handleAuthCall(p) ==
  \/ /\ handler[p].at = "login"
     /\ login(p, handler[p].email, handler[p].password)
  \/ /\ handler[p].at = "register"
     /\ \E now \in Clock :
          register(p, Name_Ann, handler[p].email, handler[p].password,
                   Undefined, Undefined, now)

\* a handler without the finally that clears isProcessing
handleAuthSettled_noFinally(p) ==
  /\ \/ Awaited(p, "login")
     \/ Awaited(p, "register")
  /\ Resume(p)
  /\ IF result[p].state = "fulfilled"
       THEN /\ currentUser' = result[p].value[1]
            /\ HandlerAt(p, "loadReceipts")
       ELSE /\ HandlerEnds(p)
            /\ UNCHANGED currentUser
  /\ UNCHANGED <<stores, install, usersTxn, history, view, receiptsState,
                 selectedStoreName, selectedReceipt, isProcessing, uuids>>

\* after the await of auth.login or auth.register: setUser and on to
\* loadReceipts, or catch (setAuthError) and finally
handleAuthSettled(p) ==
  /\ \/ Awaited(p, "login")
     \/ Awaited(p, "register")
  /\ Resume(p)
  /\ IF result[p].state = "fulfilled"
       THEN /\ currentUser' = result[p].value[1]
            /\ HandlerAt(p, "loadReceipts")
            /\ UNCHANGED isProcessing
       ELSE /\ isProcessing' = FALSE
            /\ HandlerEnds(p)
            /\ UNCHANGED currentUser
  /\ UNCHANGED <<stores, install, usersTxn, history, view, receiptsState,
                 selectedStoreName, selectedReceipt, uuids>>

\* loadReceipts, up to its await: db.getAllReceipts() of the db.ts that has
\* it; on the others the call throws a TypeError inside the try
loadReceipts(p) ==
  /\ handler[p].at = "loadReceipts"
  /\ IF dbImpl = "v2"
       THEN getAllReceipts(p)
       ELSE /\ pc[p] = "idle"
            /\ call' = [call EXCEPT ![p] = [NoCall EXCEPT !.op = "getAllReceipts"]]
            /\ Settle(p, Rejected(TypeError))
            /\ UNCHANGED <<users, receipts, install, shell, usersTxn, local,
                           history>>

\* the rest of loadReceipts: setReceipts(data), or the catch that logs
Loaded(p) ==
  IF result[p].state = "fulfilled" THEN result[p].value ELSE receiptsState

\* after the await of loadReceipts in handleLogin and handleRegister
handleAuthLoaded(p) ==
  /\ Awaited(p, "loadReceipts")
  /\ handler[p].name \in {"handleLogin", "handleRegister"}
  /\ Resume(p)
  /\ receiptsState' = Loaded(p)
  /\ view' = "DASHBOARD"
  /\ isProcessing' = FALSE
  /\ HandlerEnds(p)
  /\ UNCHANGED <<stores, install, usersTxn, history, currentUser,
                 selectedStoreName, selectedReceipt, uuids>>

\* handleLogout
handleLogout ==
  /\ Clickable("DASHBOARD")
  /\ currentUser' = Undefined
  /\ receiptsState' = <<>>
  /\ view' = "AUTH"
  /\ UNCHANGED <<stores, install, usersTxn, pc, call, local, result, history,
                 selectedStoreName, selectedReceipt, isProcessing, handler,
                 uuids>>

\* a store of the dashboard is clicked
openStore(name) ==
  /\ Clickable("DASHBOARD")
  /\ \E r \in ListItems(receiptsState) : r.storeName = name
  /\ selectedStoreName' = name
  /\ view' = "STORE_DETAIL"
  /\ UNCHANGED <<stores, install, usersTxn, pc, call, local, result, history,
                 currentUser, receiptsState, selectedReceipt, isProcessing,
                 handler, uuids>>

\* a receipt card of the store is clicked
openReceipt(r) ==
  /\ Clickable("STORE_DETAIL")
  /\ selectedStoreName # Undefined
  /\ r \in ListItems(receiptsState)
  /\ r.storeName = selectedStoreName
  /\ selectedReceipt' = r
  /\ view' = "RECEIPT_DETAIL"
  /\ UNCHANGED <<stores, install, usersTxn, pc, call, local, result, history,
                 currentUser, receiptsState, selectedStoreName, isProcessing,
                 handler, uuids>>

\* the back button of the store view, or of the receipt view
goBack ==
  /\ \/ /\ Clickable("STORE_DETAIL")
        /\ selectedStoreName # Undefined
        /\ view' = "DASHBOARD"
     \/ /\ Clickable("RECEIPT_DETAIL")
        /\ selectedReceipt # Undefined
        /\ view' = "STORE_DETAIL"
  /\ UNCHANGED <<stores, install, usersTxn, pc, call, local, result, history,
                 currentUser, receiptsState, selectedStoreName,
                 selectedReceipt, isProcessing, handler, uuids>>

\* handleFileSelect with a file, up to its await of compressImage
handleFileSelect(p) ==
  /\ Clickable("DASHBOARD")
  /\ StartsOn(p, MainProcs)
  /\ FreshIds # {}
  /\ isProcessing' = TRUE
  /\ handler' = [handler EXCEPT ![p] =
       [NoHandler EXCEPT !.name = "handleFileSelect", !.at = "compressImage"]]
  /\ UNCHANGED <<stores, install, usersTxn, pc, call, local, result, history,
                 view, currentUser, receiptsState, selectedStoreName,
                 selectedReceipt, uuids>>

\* a catch that sends the user to the store view
handleFileSelectFails_navigates(p) ==
  /\ isProcessing' = FALSE
  /\ HandlerEnds(p)
  /\ view' = "STORE_DETAIL"
  /\ UNCHANGED <<stores, install, usersTxn, history, currentUser,
                 receiptsState, selectedStoreName, selectedReceipt, uuids>>

\* catch (alert) and finally of handleFileSelect
handleFileSelectFails(p) ==
  /\ isProcessing' = FALSE
  /\ HandlerEnds(p)
  /\ UNCHANGED <<stores, install, usersTxn, history, view, currentUser,
                 receiptsState, selectedStoreName, selectedReceipt, uuids>>

\* compressImage(file) resolves with the data URL, or rejects (no canvas
\* context, reader or image error)
compressImage(p) ==
  /\ handler[p].at = "compressImage"
  /\ \/ /\ HandlerAt(p, "analyzeReceiptImage")
        /\ UNCHANGED <<stores, install, usersTxn, history, view, currentUser,
                       receiptsState, selectedStoreName, selectedReceipt,
                       isProcessing, uuids>>
     \/ handleFileSelectFails(p)
  /\ UNCHANGED <<pc, call, local, result>>

\* gemini.analyzeReceiptImage(base64) resolves with the analysis, its
\* storeName trimmed and in upper case, and newReceipt is built from
\* crypto.randomUUID(), the analysis and Date.now(); or it rethrows what
\* generateContent or JSON.parse threw
analyzeReceiptImage(p) ==
  /\ handler[p].at = "analyzeReceiptImage"
  /\ \/ \E raw \in RawStoreNames, id \in {randomUUID}, now \in Now :
          /\ handler' = [handler EXCEPT ![p].at = "saveReceipt",
               ![p].newReceipt =
                 [id |-> id, storeName |-> ToUpperCase(Trim(raw)),
                  createdAt |-> now]]
          /\ uuids' = uuids \cup {id}
          /\ UNCHANGED <<stores, install, usersTxn, history, view,
                         currentUser, receiptsState, selectedStoreName,
                         selectedReceipt, isProcessing>>
     \/ handleFileSelectFails(p)
  /\ UNCHANGED <<pc, call, local, result>>

\* db.saveReceipt(newReceipt)
handleFileSelectSave(p) ==
  /\ handler[p].at = "saveReceipt"
  /\ saveReceipt(p, handler[p].newReceipt)

\* after the await of db.saveReceipt
handleFileSelectSaved(p) ==
  /\ Awaited(p, "saveReceipt")
  /\ Resume(p)
  /\ IF result[p].state = "fulfilled"
       THEN /\ HandlerAt(p, "loadReceipts")
            /\ UNCHANGED <<stores, install, usersTxn, history, view,
                           currentUser, receiptsState, selectedStoreName,
                           selectedReceipt, isProcessing, uuids>>
       ELSE handleFileSelectFails(p)

\* after the await of loadReceipts in handleFileSelect
handleFileSelectLoaded(p) ==
  /\ Awaited(p, "loadReceipts")
  /\ handler[p].name = "handleFileSelect"
  /\ Resume(p)
  /\ receiptsState' = Loaded(p)
  /\ selectedStoreName' = handler[p].newReceipt.storeName
  /\ view' = "STORE_DETAIL"
  /\ isProcessing' = FALSE
  /\ HandlerEnds(p)
  /\ UNCHANGED <<stores, install, usersTxn, history, currentUser,
                 selectedReceipt, uuids>>

\* receipts.filter(r => r.storeName === selectedStoreName && r.id !== id)
remainingInStore(list, storeName, id) ==
  {r \in ListItems(list) : r.storeName = storeName /\ r.id # id}

\* handleDelete(selectedReceipt.id) once confirm() has returned true, up to
\* its await of db.deleteReceipt. The handler closes over the receipts and
\* selectedStoreName of the render it was created in, which it reads only in
\* remainingInStore.length: that is what the handler keeps here.
handleDelete(p) ==
  /\ Clickable("RECEIPT_DETAIL")
  /\ selectedReceipt # Undefined
  /\ StartsOn(p, BackgroundProcs)
  /\ handler' = [handler EXCEPT ![p] =
       [NoHandler EXCEPT !.name = "handleDelete", !.at = "deleteReceipt",
                         !.id = selectedReceipt.id,
                         !.remainingInStore =
                           Cardinality(remainingInStore(receiptsState,
                             selectedStoreName, selectedReceipt.id))]]
  /\ UNCHANGED <<stores, install, usersTxn, pc, call, local, result, history,
                 view, currentUser, receiptsState, selectedStoreName,
                 selectedReceipt, isProcessing, uuids>>

\* db.deleteReceipt(id)
handleDeleteCall(p) ==
  /\ handler[p].at = "deleteReceipt"
  /\ deleteReceipt(p, handler[p].id)

\* after the await of db.deleteReceipt; a rejection ends the handler, which
\* has no catch
handleDeleteDeleted(p) ==
  /\ Awaited(p, "deleteReceipt")
  /\ Resume(p)
  /\ IF result[p].state = "fulfilled"
       THEN HandlerAt(p, "loadReceipts")
       ELSE HandlerEnds(p)
  /\ UNCHANGED <<stores, install, usersTxn, history, view, currentUser,
                 receiptsState, selectedStoreName, selectedReceipt,
                 isProcessing, uuids>>

\* after the await of loadReceipts in handleDelete
handleDeleteLoaded(p) ==
  /\ Awaited(p, "loadReceipts")
  /\ handler[p].name = "handleDelete"
  /\ Resume(p)
  /\ receiptsState' = Loaded(p)
  /\ IF handler[p].remainingInStore = 0
       THEN /\ view' = "DASHBOARD"
            /\ selectedStoreName' = Undefined
       ELSE /\ view' = "STORE_DETAIL"
            /\ UNCHANGED selectedStoreName
  /\ selectedReceipt' = Undefined
  /\ HandlerEnds(p)
  /\ UNCHANGED <<stores, install, usersTxn, history, currentUser,
                 isProcessing, uuids>>

(* --------------------------- specifications ---------------------------- *)

\* the caller has taken the settled promise; it may call again
Return(p) ==
  /\ pc[p] = "done"
  /\ pc' = [pc EXCEPT ![p] = "idle"]
  /\ call' = [call EXCEPT ![p] = NoCall]
  /\ local' = [local EXCEPT ![p] = Undefined]
  /\ result' = [result EXCEPT ![p] = NoResult]
  /\ UNCHANGED <<users, receipts, install, shell, usersTxn, history>>

\* The auth service, one operation at a time (single-threaded cooperative
\* use of the app)
Next ==
  \E p \in MainProcs :
    \/ \E e \in Emails, pw \in Passwords, a \in RegAnswers, t \in Clock :
         register(p, Name_Ann, e, pw, Question_pet, a, t)
    \/ \E e \in Emails, pw \in Passwords : login(p, e, pw)
    \/ \E e \in Emails, a \in Answers : verifySecurityAnswer(p, e, a)
    \/ \E e \in Emails, pw \in Passwords : resetPassword(p, e, pw)
    \/ createUser(p)
    \/ loginGetUser(p)
    \/ loginCompare(p)
    \/ verifyGetUser(p)
    \/ verifyCompare(p)
    \/ resetGetUser(p)
    \/ resetUpdateUser(p)
    \/ Return(p)

Spec == Init /\ [][Next]_vars

\* The receipt operations of the persistence layer, one at a time
NextReceipts ==
  \E p \in MainProcs :
    \/ \E r \in ReceiptInputs : saveReceipt(p, r)
    \/ \E e \in Emails : getReceiptsByUser(p, e)
    \/ \E i \in ReceiptIds : deleteReceipt(p, i)
    \/ saveReceiptPut(p)
    \/ getReceiptsGetAll(p)
    \/ deleteReceiptDelete(p)
    \/ Return(p)

SpecReceipts == InitReceipts /\ [][NextReceipts]_vars

\* Concurrent callers: calls of register and resetPassword overlap, under
\* either build of createUser; the overlapping calls read the same
\* millisecond from Date.now()
ConcEmails == {Email_a, Email_A}

ConcPasswords == {Pw_Passw0rd, Pw_NewPass1}

ConcNow == CHOOSE t \in Clock : \A u \in Clock : t <= u

InitConc ==
  /\ InitCommon
  /\ \E build \in {"v2", "v4"} : Installed(build)
  /\ authImpl = "current"
  /\ NoUsers
  /\ receipts = EmptyStore

NextConc ==
  \E p \in Procs :
    \/ \E e \in ConcEmails, pw \in ConcPasswords :
         register(p, Name_Ann, e, pw, Question_pet, Ans_Rex, ConcNow)
    \/ \E e \in ConcEmails, pw \in ConcPasswords : resetPassword(p, e, pw)
    \/ createUser(p)
    \/ createUserGet(p)
    \/ createUserAdd(p)
    \/ resetGetUser(p)
    \/ resetUpdateUser(p)
    \/ Return(p)

SpecConc == InitConc /\ [][NextConc]_vars

\* The latest build with a storage that can fail: a request can fail, and
\* a transaction can abort after its request has succeeded
FaultEmails == {Email_a, Email_A}

FaultReceipts == {SampleReceipt, [SampleReceipt EXCEPT !.storeName = <<>>]}

FaultOwners == {CleanEmail(Email_a), CleanEmail(Email_b)}

NextFault ==
  \E p \in MainProcs :
    \/ \E e \in FaultEmails, pw \in ConcPasswords :
         register(p, Name_Ann, e, pw, Question_pet, Ans_Rex, ConcNow)
    \/ \E e \in FaultEmails, pw \in ConcPasswords : login(p, e, pw)
    \/ \E e \in FaultEmails, a \in {Ans_rex, Ans_CAT} :
         verifySecurityAnswer(p, e, a)
    \/ \E e \in FaultEmails, pw \in ConcPasswords : resetPassword(p, e, pw)
    \/ \E e \in FaultOwners : getUserCall(p, e)
    \/ \E r \in FaultReceipts : saveReceipt(p, r)
    \/ \E u \in FaultOwners : getReceiptsByUser(p, u)
    \/ deleteReceipt(p, SampleReceipt.id)
    \/ createUser(p)
    \/ loginGetUser(p)
    \/ loginCompare(p)
    \/ verifyGetUser(p)
    \/ verifyCompare(p)
    \/ resetGetUser(p)
    \/ resetUpdateUser(p)
    \/ getUserGet(p)
    \/ saveReceiptPut(p)
    \/ getReceiptsGetAll(p)
    \/ deleteReceiptDelete(p)
    \/ \E err \in StorageErrors : storageFails(p, err)
    \/ commitAborts(p)
    \/ Return(p)

SpecFault == Init /\ [][NextFault]_vars

\* The auth service under each of the two definitions of auth.ts
InitEarlier ==
  /\ InitCommon
  /\ Installed("v4")
  /\ authImpl \in {"current", "earlier"}
  /\ NoUsers
  /\ receipts = EmptyStore

NextEarlier ==
  \E p \in MainProcs :
    \/ \E e \in FaultEmails, pw \in Passwords :
         register(p, Name_Ann, e, pw, Question_pet, Ans_Rex, ConcNow)
    \/ \E e \in FaultEmails, pw \in Passwords : login(p, e, pw)
    \/ \E e \in FaultEmails, a \in Answers : verifySecurityAnswer(p, e, a)
    \/ \E e \in FaultEmails, pw \in Passwords : resetPassword(p, e, pw)
    \/ createUser(p)
    \/ loginGetUser(p)
    \/ loginCompare(p)
    \/ verifyGetUser(p)
    \/ verifyCompare(p)
    \/ resetGetUser(p)
    \/ resetUpdateUser(p)
    \/ Return(p)

SpecEarlier == InitEarlier /\ [][NextEarlier]_vars

\* Account recovery for users registered with or without a security
\* question, and for a user record that has neither question nor answer
EmptyQuestion == <<>>

UserWithoutRecovery ==
  User(CleanEmail(Email_b), Trim(Name_Ann), hashString(Pw_Passw0rd), 1,
       Undefined, Undefined)

InitRecovery ==
  /\ InitCommon
  /\ Installed("v4")
  /\ authImpl = "current"
  /\ receipts = EmptyStore
  /\ verified = {}
  /\ \/ NoUsers
     \/ /\ users = Put(EmptyStore, UserWithoutRecovery.email, UserWithoutRecovery)
        /\ curPassword = Put(EmptyStore, UserWithoutRecovery.email, Pw_Passw0rd)
        /\ registered = EmptyStore

NextRecovery ==
  \E p \in MainProcs :
    \/ \E e \in FaultEmails, q \in {Question_pet, EmptyQuestion},
          a \in RegAnswers, t \in Clock :
         register(p, Name_Ann, e, Pw_Passw0rd, q, a, t)
    \/ \E e \in Emails, a \in Answers : verifySecurityAnswer(p, e, a)
    \/ createUser(p)
    \/ verifyGetUser(p)
    \/ verifyCompare(p)
    \/ Return(p)

SpecRecovery == InitRecovery /\ [][NextRecovery]_vars

\* A build of db.ts opens a database that does not exist yet or that an
\* earlier or later version has left; the stores that exist are empty or
\* hold a record
InitMigrate ==
  /\ InitCommon
  /\ otherTabs = {}
  /\ authImpl = "current"
  /\ dbImpl \in Builds
  /\ dbVersion \in 0..DB_VERSION("v4")
  /\ schema \in SchemasAt[dbVersion]
  /\ \/ receipts = EmptyStore
     \/ /\ Store_receipts \in schema
        /\ receipts = Put(EmptyStore, SampleReceipt.id, SampleReceipt)
  /\ \/ NoUsers
     \/ /\ Store_users \in schema
        /\ users = Put(EmptyStore, SampleUser.email, SampleUser)
        /\ curPassword = Put(EmptyStore, SampleUser.email, Pw_Passw0rd)
        /\ registered = Put(EmptyStore, SampleUser.email, [answer |-> Ans_Rex])

NextMigrate ==
  \E p \in MainProcs :
    \/ openDB(p)
    \/ openDBRequest(p)
    \/ Return(p)

SpecMigrate == InitMigrate /\ [][NextMigrate]_vars

\* The database is also open in another tab, which loaded the application
\* earlier, possibly in an earlier build: it holds the connection of its last
\* operation. The user may close that tab. An open request that can proceed
\* does.
Tabs == {"other"}

InitBlocked ==
  /\ InitCommon
  /\ authImpl = "current"
  /\ dbImpl \in Builds
  /\ dbVersion \in 0..DB_VERSION("v4")
  /\ schema \in SchemasAt[dbVersion]
  /\ otherTabs \in SUBSET Tabs
  /\ dbVersion = 0 => otherTabs = {}
  /\ \/ receipts = EmptyStore
     \/ /\ Store_receipts \in schema
        /\ receipts = Put(EmptyStore, SampleReceipt.id, SampleReceipt)
  /\ \/ NoUsers
     \/ /\ Store_users \in schema
        /\ users = Put(EmptyStore, SampleUser.email, SampleUser)
        /\ curPassword = Put(EmptyStore, SampleUser.email, Pw_Passw0rd)
        /\ registered = Put(EmptyStore, SampleUser.email, [answer |-> Ans_Rex])

\* the user closes the other tab, and its connections with it
tabCloses(t) ==
  /\ t \in otherTabs
  /\ otherTabs' = otherTabs \ {t}
  /\ UNCHANGED <<users, receipts, dbImpl, authImpl, schema, dbVersion, shell,
                 usersTxn, pc, call, local, result, history>>

NextBlocked ==
  \/ \E p \in MainProcs :
       \/ openDB(p)
       \/ openDBRequest(p)
       \/ Return(p)
  \/ \E t \in Tabs : tabCloses(t)

SpecBlocked ==
  /\ InitBlocked
  /\ [][NextBlocked]_vars
  /\ \A p \in MainProcs : WF_vars(openDBRequest(p))

\* The password policy put to a bounded set of passwords
NextPolicy ==
  \E p \in MainProcs :
    \/ \E pw \in PolicyInputs : PASSWORD_REGEX_test(p, pw)
    \/ Return(p)

SpecPolicy == Init /\ [][NextPolicy]_vars

(* ------------------------------- claims -------------------------------- *)

\* a call of the operation op has settled for caller p
Done(p, op) == pc[p] = "done" /\ call[p].op = op

Fulfilled(p, op) == Done(p, op) /\ result[p].state = "fulfilled"

\* lowercase(trim(s)) of the emails and answers the callers use
Normal ==
  [s \in Emails \cup Answers \cup RegAnswers |-> ToLowerCase(Trim(s))]

\* The application: the App component over auth.ts and a db.ts, with the
\* users and receipts of earlier sessions in the database. Handlers run on
\* the callers; the user's clicks interleave with their awaits.
OtherUser ==
  User(CleanEmail(Email_b), Trim(Name_Ann), hashString(Pw_NewPass1), 1,
       Question_pet, hashString(CleanAnswer(Ans_cat)))

AppEmails == {Email_A, Email_b}

InitApp ==
  /\ InitCommon
  /\ \E build \in {"v2", "v4"} : Installed(build)
  /\ authImpl = "current"
  /\ users = Put(Put(EmptyStore, SampleUser.email, SampleUser),
                 OtherUser.email, OtherUser)
  /\ curPassword = Put(Put(EmptyStore, SampleUser.email, Pw_Passw0rd),
                       OtherUser.email, Pw_NewPass1)
  /\ registered = Put(Put(EmptyStore, SampleUser.email, [answer |-> Ans_Rex]),
                      OtherUser.email, [answer |-> Ans_cat])
  /\ receipts = Put(Put(EmptyStore, SampleReceipt.id, SampleReceipt),
                    OtherReceipt.id, OtherReceipt)

\* the steps of handleLogin, handleRegister and handleFileSelect on p that
\* are not the user's: an awaited operation is called, a request settles
\* with success or with an error, the handler resumes
LoaderStep(p) ==
  \/ handleAuthCall(p)
  \/ loginGetUser(p)
  \/ loginCompare(p)
  \/ handleAuthSettled(p)
  \/ loadReceipts(p)
  \/ getAllReceiptsGetAll(p)
  \/ handleAuthLoaded(p)
  \/ compressImage(p)
  \/ analyzeReceiptImage(p)
  \/ handleFileSelectSave(p)
  \/ saveReceiptPut(p)
  \/ handleFileSelectSaved(p)
  \/ handleFileSelectLoaded(p)
  \/ \E err \in StorageErrors : storageFails(p, err)

\* those of handleDelete
DeleteStep(p) ==
  \/ handleDeleteCall(p)
  \/ deleteReceiptDelete(p)
  \/ handleDeleteDeleted(p)
  \/ handleDeleteLoaded(p)

NextApp ==
  \/ \E p \in Procs :
       \/ \E e \in AppEmails : handleLogin(p, e, Pw_Passw0rd)
       \/ handleRegister(p, Name_Ann, Email_b, Pw_NewPass1)
       \/ handleFileSelect(p)
       \/ handleDelete(p)
       \/ LoaderStep(p)
       \/ DeleteStep(p)
  \/ handleLogout
  \/ \E raw \in RawStoreNames : openStore(ToUpperCase(Trim(raw)))
  \/ \E r \in ListItems(receiptsState) : openReceipt(r)
  \/ goBack

SpecApp == InitApp /\ [][NextApp]_vars

\* The handlers that show the loader, and handleLogout. Every operation such a
\* handler awaits settles, and the event loop runs the continuation of a
\* settled promise: the steps of the handler are taken when they can be.
NextLoader ==
  \/ \E p \in MainProcs :
       \/ \E e \in AppEmails, pw \in ConcPasswords : handleLogin(p, e, pw)
       \/ \E e \in AppEmails, pw \in ConcPasswords :
            handleRegister(p, Name_Ann, e, pw)
       \/ handleFileSelect(p)
       \/ LoaderStep(p)
  \/ handleLogout
  \/ goBack

SpecLoader ==
  /\ InitApp
  /\ [][NextLoader]_vars
  /\ \A p \in MainProcs : WF_vars(LoaderStep(p))

\* C1: for every registered email (in any casing) and every password P,
\* login(email, P) succeeds if and only if P is, character for character, the
\* password of the registration or of the most recent successful
\* resetPassword; every other P fails with the incorrect-password error.
\* This holds of the outcome of login on every reachable store and of the
\* result of every login call that has settled.
C1_LoginIffCurrentPassword ==
  /\ \A e \in Emails, P \in Passwords :
       Normal[e] \in DOMAIN users =>
         LET k == Normal[e]
             r == loginOutcome(Get(users, CleanEmail(e)), P)
         IN  /\ (r.state = "fulfilled") <=> (P = curPassword[k])
             /\ P # curPassword[k] => r = Rejected(ErrPassword)
  /\ \A p \in Procs :
       (Done(p, "login") /\ Normal[call[p].email] \in DOMAIN users) =>
         LET k == Normal[call[p].email]
         IN  IF call[p].password = curPassword[k]
               THEN result[p] = Resolved(<<users[k]>>)
               ELSE result[p] = Rejected(ErrPassword)

\* C1 witness: a login with the new password has succeeded, and the store
\* also holds a password that differs from a tried one in letter case only
C1_Witness ==
  \E p \in Procs :
    /\ Fulfilled(p, "login")
    /\ call[p].password = Pw_NewPass1
    /\ \E k \in DOMAIN users : curPassword[k] = Pw_Passw0rd

\* C2: once register has succeeded for E1, a register with any E2 such that
\* lowercase(trim(E2)) = lowercase(trim(E1)) and a password that passes the
\* policy reaches db.createUser and fails there with "El usuario ya existe",
\* leaving the users store as it was.
C2_DuplicateEmailCollides ==
  [][\A p \in Procs :
       /\ (pc[p] = "idle" /\ call'[p].op = "register"
             /\ PASSWORD_REGEX(call'[p].password))
            => pc'[p] = "createUser"
       /\ (pc[p] = "createUser" /\ pc'[p] = "done"
             /\ \E E1 \in Emails :
                  /\ Normal[E1] \in DOMAIN users
                  /\ Normal[call[p].email] = Normal[E1])
            => /\ result'[p] = Rejected(ErrExists)
               /\ users' = users
    ]_vars

\* C2 witness: a registration that differs from the stored key in letter case
\* and white space was refused as a duplicate
C2_Witness ==
  \E p \in Procs :
    /\ Done(p, "register")
    /\ result[p] = Rejected(ErrExists)
    /\ call[p].email = Email_A
    /\ DOMAIN users = {Email_a}

\* C3: for every registered user and every answer A, verifySecurityAnswer
\* succeeds if and only if A, trimmed and lower-cased, equals the trimmed and
\* lower-cased answer of the registration, whatever resetPassword has done
\* since; a settled verifySecurityAnswer call has that result.
C3_VerifyIffNormalizedAnswer ==
  /\ \A k \in DOMAIN users, A \in Answers \cup RegAnswers :
       (verifyOutcome(users[k], A).state = "fulfilled")
         <=> (Normal[A] = Normal[registered[k].answer])
  /\ \A p \in Procs :
       (Done(p, "verifySecurityAnswer")
          /\ Normal[call[p].email] \in DOMAIN users) =>
         LET k == Normal[call[p].email]
         IN  (result[p].state = "fulfilled")
               <=> (Normal[call[p].answer]
                      = Normal[registered[k].answer])

\* C3 witness: the answer "rex" was accepted for a registration with "Rex ",
\* for a user whose password a resetPassword has replaced
C3_Witness ==
  \E p \in Procs :
    /\ Fulfilled(p, "verifySecurityAnswer")
    /\ call[p].answer = Ans_rex
    /\ LET k == Normal[call[p].email]
       IN  /\ registered[k].answer = Ans_Rex
           /\ curPassword[k] = Pw_NewPass1
           /\ \E k2 \in DOMAIN users : curPassword[k2] = Pw_Passw0rd

\* C4: the recovery steps cannot be skipped: whenever the password hash of
\* a user record is replaced, verifySecurityAnswer has succeeded for that
\* email before.
C4_ResetOnlyAfterVerify ==
  [][\A k \in DOMAIN users :
       (k \in DOMAIN users' /\ users'[k].passwordHash # users[k].passwordHash)
         => k \in verified
    ]_vars

\* the key a register call in flight writes under
KeyOf(p) == Normal[call[p].email]

\* C5: however concurrent register calls (and so createUser calls) for one
\* email interleave, under either build of createUser: a call succeeds only
\* if no record has the key, and then the record stored is its own; a call
\* that finds a record fails with "El usuario ya existe" and changes
\* nothing; no record is ever removed, so at most one call per email
\* succeeds; and the stored record stays the record of the call that
\* succeeded (resetPassword changing its passwordHash only).
C5_CreateUserAtomic ==
  /\ [][\A p \in Procs :
          /\ (pc[p] \in {"createUser", "createUser_checked"} /\ pc'[p] = "done")
               => IF KeyOf(p) \in DOMAIN users
                    THEN /\ result'[p] = Rejected(ErrExists)
                         /\ users' = users
                    ELSE /\ result'[p].state = "fulfilled"
                         /\ users' = Put(users, KeyOf(p), result'[p].value[1])
          /\ DOMAIN users \subseteq DOMAIN users'
       ]_vars
  /\ [](\A p \in Procs :
          Fulfilled(p, "register") =>
            LET u == result[p].value[1]
            IN  /\ u.email \in DOMAIN users
                /\ users[u.email]
                     = [u EXCEPT !.passwordHash = users[u.email].passwordHash]
                /\ \A q \in Procs \ {p} :
                     ~(Fulfilled(q, "register") /\ KeyOf(q) = KeyOf(p)))

\* C5 witness: two register calls for one email, with different passwords
\* and differently typed emails, have both settled; one succeeded, the other
\* was refused as a duplicate, and the record is the one of the first
C5_Witness ==
  \E p, q \in Procs :
    /\ Fulfilled(p, "register")
    /\ Done(q, "register")
    /\ result[q] = Rejected(ErrExists)
    /\ call[p].email # call[q].email
    /\ call[p].password # call[q].password
    /\ users[KeyOf(p)] = result[p].value[1]
    /\ dbImpl = "v2"

\* the elements of a sequence
Elements(seq) == {seq[i] : i \in 1..Len(seq)}

\* the stored receipts of a user
Owned(u) == {receipts[k] : k \in {i \in DOMAIN receipts : receipts[i].userEmail = u}}

\* a result of getReceiptsByUser(u) holds exactly the receipts of u
ExactlyOwned(seq, u) ==
  /\ Elements(seq) = Owned(u)
  /\ Len(seq) = Cardinality(Owned(u))

\* C6 as stated: getReceiptsByUser(u) returns exactly the stored receipts
\* whose userEmail is u, and of two adjacent elements the earlier has the
\* strictly greater createdAt.
C6_StrictlyDescending ==
  /\ \A u \in Emails \cup {Normal[e] : e \in Emails} :
       LET seq == ReceiptsByUser(receipts, u)
       IN  /\ ExactlyOwned(seq, u)
           /\ \A i \in 1..(Len(seq) - 1) : seq[i].createdAt > seq[i + 1].createdAt
  /\ \A p \in Procs :
       Done(p, "getReceiptsByUser") =>
         LET seq == result[p].value
         IN  /\ result[p].state = "fulfilled"
             /\ ExactlyOwned(seq, call[p].email)
             /\ \A i \in 1..(Len(seq) - 1) : seq[i].createdAt > seq[i + 1].createdAt

\* C6 amended: getReceiptsByUser(u) returns exactly the stored receipts whose
\* userEmail is u, and of two adjacent elements the earlier has a createdAt
\* greater than or equal to the later one's (receipts with equal createdAt
\* are adjacent, in no guaranteed relative order by time).
C6_Descending ==
  /\ \A u \in Emails \cup {Normal[e] : e \in Emails} :
       LET seq == ReceiptsByUser(receipts, u)
       IN  /\ ExactlyOwned(seq, u)
           /\ \A i \in 1..(Len(seq) - 1) : seq[i].createdAt >= seq[i + 1].createdAt
  /\ \A p \in Procs :
       Done(p, "getReceiptsByUser") =>
         LET seq == result[p].value
         IN  /\ result[p].state = "fulfilled"
             /\ ExactlyOwned(seq, call[p].email)
             /\ \A i \in 1..(Len(seq) - 1) : seq[i].createdAt >= seq[i + 1].createdAt

\* C6 witness: a call returned two receipts of one user, the newer first
\* although it has the greater id, while the store also holds another
\* user's receipt
C6_Witness ==
  \E p \in Procs :
    /\ Fulfilled(p, "getReceiptsByUser")
    /\ Len(result[p].value) = 2
    /\ result[p].value[1].id > result[p].value[2].id
    /\ result[p].value[1].createdAt > result[p].value[2].createdAt
    /\ \E k \in DOMAIN receipts : receipts[k].userEmail # call[p].email

\* the user registered as "a@x.com" with the answer "Rex "
E2EKey == Normal[Email_a]

E2ERegistered == E2EKey \in DOMAIN users /\ registered[E2EKey].answer = Ans_Rex

\* C7: after register("a@x.com", "Passw0rd!", "pet", "Rex "),
\* login("A@X.com ", "Passw0rd!") succeeds and verifySecurityAnswer with
\* "rex" succeeds; after resetPassword to "NewPass1!", login with the old
\* password fails and login with the new password succeeds.  Stated of the
\* outcome of the operations on the store and of the settled calls.
C7_EndToEnd ==
  /\ (E2ERegistered /\ curPassword[E2EKey] = Pw_Passw0rd) =>
       /\ loginOutcome(Get(users, CleanEmail(Email_A)), Pw_Passw0rd)
            = Resolved(<<users[E2EKey]>>)
       /\ verifyOutcome(Get(users, CleanEmail(Email_a)), Ans_rex)
            = Resolved(<<users[E2EKey]>>)
       /\ users[E2EKey].securityQuestion = Question_pet
  /\ (E2ERegistered /\ curPassword[E2EKey] = Pw_NewPass1) =>
       /\ loginOutcome(Get(users, CleanEmail(Email_A)), Pw_Passw0rd)
            = Rejected(ErrPassword)
       /\ loginOutcome(Get(users, CleanEmail(Email_A)), Pw_NewPass1)
            = Resolved(<<users[E2EKey]>>)
  /\ \A p \in Procs :
       (E2ERegistered /\ Done(p, "login") /\ call[p].email = Email_A) =>
         (result[p].state = "fulfilled" <=> call[p].password = curPassword[E2EKey])
  /\ \A p \in Procs :
       (E2ERegistered /\ Done(p, "verifySecurityAnswer")
          /\ KeyOf(p) = E2EKey /\ call[p].answer = Ans_rex) =>
         result[p].state = "fulfilled"
  /\ \A p \in Procs :
       (Fulfilled(p, "resetPassword") /\ KeyOf(p) = E2EKey) =>
         users[E2EKey].passwordHash = hashString(call[p].password)

\* C7 witness: for the user registered with the answer "Rex ", recovery has
\* succeeded, the password is the one a reset has set, and a login with
\* "A@X.com " and the old password has just failed
C7_Witness ==
  \E p \in Procs :
    /\ E2ERegistered
    /\ E2EKey \in verified
    /\ curPassword[E2EKey] = Pw_NewPass1
    /\ Done(p, "login")
    /\ call[p].email = Email_A
    /\ call[p].password = Pw_Passw0rd
    /\ result[p] = Rejected(ErrPassword)

\* C8: the step of resetPassword that writes changes only the passwordHash
\* of the record of the normalized email (to the digest of the new password):
\* the other fields of that record, every other user record and all receipts
\* stay as they are.
C8_ResetChangesOnlyHash ==
  [][\A p \in Procs :
       (pc[p] = "reset_updateUser" /\ pc'[p] = "done") =>
         /\ result'[p] = Resolved(<<>>)
         /\ receipts' = receipts
         /\ DOMAIN users' = DOMAIN users
         /\ \A k \in DOMAIN users :
              IF k = KeyOf(p)
                THEN users'[k] = [users[k] EXCEPT
                                    !.passwordHash = hashString(call[p].password)]
                ELSE users'[k] = users[k]
    ]_vars

\* C8 witness: a resetPassword has replaced a hash while the store held
\* another user and the receipts store held a receipt
C8_Witness ==
  \E p \in Procs :
    /\ Fulfilled(p, "resetPassword")
    /\ call[p].password = Pw_NewPass1
    /\ users[KeyOf(p)].passwordHash = hashString(Pw_NewPass1)
    /\ \E k \in DOMAIN users : k # KeyOf(p) /\ curPassword[k] = Pw_Passw0rd
    /\ receipts # EmptyStore

\* C9: createUser(user) for an email that has a record fails with the
\* domain error "El usuario ya existe", not with the storage error, and
\* leaves the users store as it is: the password hash and the answer hash of
\* the existing user are not overwritten.
C9_DuplicateLeavesRecord ==
  [][\A p \in Procs :
       (pc[p] = "createUser" /\ pc'[p] = "done" /\ local[p].email \in DOMAIN users) =>
         /\ result'[p].state = "rejected"
         /\ result'[p].error = ErrExists
         /\ result'[p].error # ConstraintError
         /\ users' = users
    ]_vars

\* C9 witness: a registration with another password and another answer was
\* refused, and the record still has the hashes of the first registration
C9_Witness ==
  \E p \in Procs :
    /\ Done(p, "register")
    /\ result[p] = Rejected(ErrExists)
    /\ users[KeyOf(p)].passwordHash # hashString(call[p].password)
    /\ users[KeyOf(p)].securityAnswerHash # hashString(CleanAnswer(call[p].answer))

\* C10: the step of deleteReceipt(id) that deletes succeeds, removes the
\* receipt with that id if there is one, and leaves every other receipt and
\* all users as they are; when no receipt has the id, the store is unchanged.
C10_DeleteReceiptFrame ==
  [][\A p \in Procs :
       (pc[p] = "deleteReceipt_delete" /\ pc'[p] = "done") =>
         /\ result'[p] = Resolved(<<>>)
         /\ users' = users
         /\ DOMAIN receipts' = DOMAIN receipts \ {call[p].id}
         /\ \A k \in DOMAIN receipts' : receipts'[k] = receipts[k]
         /\ call[p].id \notin DOMAIN receipts => receipts' = receipts
    ]_vars

\* C10 witness: a deleteReceipt has succeeded, its id is not stored, and the
\* store holds other receipts and a user
C10_Witness ==
  \E p \in Procs :
    /\ Fulfilled(p, "deleteReceipt")
    /\ call[p].id \notin DOMAIN receipts
    /\ Cardinality(DOMAIN receipts) = 2
    /\ users # EmptyStore

\* what the policy is said to ask of a password: at least 8 characters, a
\* lowercase letter, an uppercase letter, a digit and a character that is
\* neither a letter nor a digit
FourClasses(pw) ==
  /\ Len(pw) >= 8
  /\ Range(pw) \cap LowerSet # {}
  /\ Range(pw) \cap UpperSet # {}
  /\ Range(pw) \cap Digits # {}
  /\ Range(pw) \ (LowerSet \cup UpperSet \cup Digits) # {}

Accepted(p) == result[p] = Resolved(<<TRUE>>)

PolicyExamples ==
  \A p \in Procs :
    Done(p, "PASSWORD_REGEX.test") =>
      /\ call[p].password = Pw_Abcdef1 => Accepted(p)
      /\ call[p].password \in {Pw_abcdefgh, Pw_ABCDEFG1, Pw_NoSymbol} => ~Accepted(p)

\* C11 as stated: the policy accepts a password if and only if it has at
\* least 8 characters and contains a lowercase letter, an uppercase letter,
\* a digit and a non-alphanumeric symbol; "Abcdef1!" is accepted, "abcdefgh",
\* "ABCDEFG1" and "Abcdefg1" are rejected.
C11_PolicyIffFourClasses ==
  /\ PolicyExamples
  /\ \A p \in Procs :
       Done(p, "PASSWORD_REGEX.test") =>
         (Accepted(p) <=> FourClasses(call[p].password))

\* C11 amended: the policy accepts a password if and only if it has at
\* least 8 characters, none of them a line terminator, and contains a
\* lowercase letter a-z, an uppercase letter A-Z, a digit 0-9 and a
\* character that is none of these; the four examples are as stated.
C11_PolicyIffFourClassesOneLine ==
  /\ PolicyExamples
  /\ \A p \in Procs :
       Done(p, "PASSWORD_REGEX.test") =>
         (Accepted(p) <=>
            /\ FourClasses(call[p].password)
            /\ Range(call[p].password) \cap LineTerminators = {})

\* C11 witness: the policy has accepted "Abcdef1!"
C11_Witness ==
  \E p \in Procs :
    /\ Done(p, "PASSWORD_REGEX.test")
    /\ call[p].password = Pw_Abcdef1
    /\ Accepted(p)

\* both object stores and both indexes of 'receipts'
LatestSchema ==
  {Store_receipts, Index_createdAt, Index_userEmail, Store_users}

\* C12: when the latest build opens a database that is at an earlier version
\* or does not exist, with whatever structures are already there, the one
\* open succeeds and leaves both stores and both receipts indexes present,
\* keeps every structure that was there, and leaves every record as it was.
C12_MigrationAdditive ==
  [][\A p \in Procs :
       (pc[p] = "openDB" /\ pc'[p] = "done" /\ dbImpl = "v4") =>
         /\ result'[p].state = "fulfilled"
         /\ schema' = LatestSchema
         /\ schema \subseteq schema'
         /\ users' = users
         /\ receipts' = receipts]_vars

\* C13: whenever saveReceipt, deleteReceipt, createUser (inside register) or
\* updateUser (inside resetPassword) has completed successfully for the
\* caller, the write is in the store; and a call whose transaction aborted
\* has been reported to the caller as a failure.
C13_WritesCommittedOrReported ==
  \A p \in Procs :
    /\ Fulfilled(p, "saveReceipt") =>
         Get(receipts, call[p].receipt.id) = call[p].receipt
    /\ Fulfilled(p, "deleteReceipt") => call[p].id \notin DOMAIN receipts
    /\ Fulfilled(p, "register") => Get(users, local[p].email) = local[p]
    /\ Fulfilled(p, "resetPassword") => Get(users, local[p].email) = local[p]
    /\ (pc[p] = "done" /\ call[p].aborted) => result[p].state = "rejected"

\* C14: a saveReceipt(r) that succeeds leaves exactly one record with the id
\* r.id, equal to r, leaves the records of all other ids as they were and
\* adds or removes no other id; and after any step every stored receipt is
\* held under its own id, so no two stored receipts share an id.
C14_SaveReceiptUpserts ==
  [][/\ \A p \in Procs :
          (pc[p] = "saveReceipt_put" /\ pc'[p] = "done"
             /\ result'[p].state = "fulfilled") =>
            LET r == call[p].receipt
            IN  /\ Cardinality({k \in DOMAIN receipts' : receipts'[k].id = r.id}) = 1
                /\ Get(receipts', r.id) = r
                /\ DOMAIN receipts' = DOMAIN receipts \cup {r.id}
                /\ \A k \in DOMAIN receipts \ {r.id} : receipts'[k] = receipts[k]
     /\ \A k \in DOMAIN receipts' : receipts'[k].id = k]_vars

\* C14 witness: a saveReceipt has succeeded, its receipt is stored, and
\* receipts with other ids are stored beside it
C14_Witness ==
  \E p \in Procs :
    /\ Fulfilled(p, "saveReceipt")
    /\ Get(receipts, call[p].receipt.id) = call[p].receipt
    /\ Cardinality(DOMAIN receipts) >= 2

\* C15: in every step of the auth service the users that were stored stay
\* stored (the set of registered emails only grows), every user record is
\* held under its own email, and no two stored records have emails that are
\* equal after trimming and lower-casing.
C15_OneUserPerEmailNeverRemoved ==
  [][/\ DOMAIN users \subseteq DOMAIN users'
     /\ \A k \in DOMAIN users' : users'[k].email = k
     /\ Cardinality({ToLowerCase(Trim(k)) : k \in DOMAIN users'})
          = Cardinality(DOMAIN users')]_vars

\* C15 witness: with two users stored, a resetPassword has succeeded
C15_Witness ==
  \E p \in Procs :
    /\ Fulfilled(p, "resetPassword")
    /\ Cardinality(DOMAIN users) >= 2

\* no stored receipt belongs to the user
NoReceiptOf(u) == \A k \in DOMAIN receipts : receipts[k].userEmail # u

\* C16: a getUser(email) that finds no record resolves with undefined and a
\* getReceiptsByUser(u) that finds no receipt resolves with the empty list;
\* a settled call of either has rejected exactly when its storage request
\* failed, with the error of that request, and has otherwise resolved with
\* what the store holds.
C16_AbsenceIsNotAnError ==
  \A p \in Procs :
    /\ (Done(p, "getUser") /\ call[p].ioError = "") =>
         /\ result[p] = Resolved(<<Get(users, call[p].email)>>)
         /\ call[p].email \notin DOMAIN users => result[p] = Resolved(<<Undefined>>)
    /\ (Done(p, "getReceiptsByUser") /\ call[p].ioError = "") =>
         /\ result[p].state = "fulfilled"
         /\ NoReceiptOf(call[p].email) => result[p] = Resolved(<<>>)
    /\ (Done(p, "getUser") \/ Done(p, "getReceiptsByUser")) =>
         /\ result[p].state = "rejected" <=> call[p].ioError # ""
         /\ call[p].ioError # "" => result[p] = Rejected(call[p].ioError)

\* C16 witness: on a users store that holds a record, a getUser for another
\* email has resolved with undefined
C16_Witness ==
  \E p \in Procs :
    /\ Fulfilled(p, "getUser")
    /\ users # EmptyStore
    /\ call[p].email \notin DOMAIN users
    /\ result[p].value = <<Undefined>>

AuthOps == {"register", "login", "verifySecurityAnswer", "resetPassword"}

\* C20: once a persistence call made by register, login,
\* verifySecurityAnswer or resetPassword has failed with a storage error,
\* the auth call has settled as rejected with that same error: it is at no
\* further persistence call and has not resolved.
C20_StorageErrorsPassThrough ==
  \A p \in Procs :
    (call[p].op \in AuthOps /\ call[p].ioError # "") =>
      /\ pc[p] = "done"
      /\ result[p] = Rejected(call[p].ioError)

\* C20 witness: the updateUser of a resetPassword for a stored user has
\* failed, and the call has rejected with the storage error
C20_Witness ==
  \E p \in Procs :
    /\ Done(p, "resetPassword")
    /\ local[p] # Undefined
    /\ local[p].email \in DOMAIN users
    /\ call[p].ioError \in StorageErrors
    /\ result[p] = Rejected(call[p].ioError)

\* the passwords of the auth callers that satisfy the policy as amended in C11
Compliant ==
  [pw \in Passwords |->
     FourClasses(pw) /\ Range(pw) \cap LineTerminators = {}]

PolicyError(op) == IF op = "register" THEN ErrPolicyRegister ELSE ErrPolicyReset

\* C19: a register or resetPassword call whose password violates the policy
\* settles in its first step as rejected with the policy error of that
\* operation and leaves the users store as it was; and no register or
\* resetPassword call with such a password is ever at a persistence call.
C19_PolicyViolationWritesNothing ==
  [][\A p \in Procs :
       /\ (pc[p] = "idle" /\ call'[p].op \in {"register", "resetPassword"}
            /\ ~Compliant[call'[p].password]) =>
            /\ pc'[p] = "done"
            /\ result'[p] = Rejected(PolicyError(call'[p].op))
            /\ users' = users
       /\ (call'[p].op \in {"register", "resetPassword"}
            /\ ~Compliant[call'[p].password]) =>
            pc'[p] \notin DbSteps]_vars

\* C19 witness: a resetPassword for a stored user with a password that
\* violates the policy has been rejected with the policy error, and the
\* stored hash is still that of the user's password
C19_Witness ==
  \E p \in Procs :
    /\ Done(p, "resetPassword")
    /\ ~Compliant[call[p].password]
    /\ result[p] = Rejected(ErrPolicyReset)
    /\ KeyOf(p) \in DOMAIN users
    /\ users[KeyOf(p)].passwordHash = hashString(curPassword[KeyOf(p)])

LowerPassword == [P \in Passwords |-> ToLowerCase(P)]

\* C17: under each definition of auth.ts, the stored password hash is the
\* digest of the password exactly as typed at the last register or
\* resetPassword, the stored answer hash is the digest of the trimmed,
\* lower-cased answer, and no two passwords that differ only in letter case
\* both pass the login comparison for the same user.
C17_HashInputsSymmetric ==
  \A k \in DOMAIN users :
    /\ users[k].passwordHash = hashString(curPassword[k])
    /\ users[k].securityAnswerHash = hashString(Normal[registered[k].answer])
    /\ \A P1, P2 \in Passwords :
         (P1 # P2 /\ LowerPassword[P1] = LowerPassword[P2]) =>
           ~ /\ loginOutcome(users[k], P1).state = "fulfilled"
             /\ loginOutcome(users[k], P2).state = "fulfilled"

\* C18: a verifySecurityAnswer call that has settled has failed with the
\* no-such-account error when no user has the email, and with the
\* recovery-not-configured error when the user's securityQuestion is missing
\* or empty.
C18_RecoveryNeedsQuestion ==
  \A p \in Procs :
    Done(p, "verifySecurityAnswer") =>
      LET user == Get(users, KeyOf(p))
      IN  /\ user = Undefined => result[p] = Rejected(ErrNotFound)
          /\ (user # Undefined /\ Falsy(user.securityQuestion)) =>
               result[p] = Rejected(ErrNoRecovery)

\* a step in which the request of a call of the operation settles the call
Settles(p, label) == pc[p] = label /\ pc'[p] = "done"

\* C22 as stated: from the step that stores a receipt until the step in
\* which deleteReceipt removes it, none of its fields changes: in every
\* step, a receipt stored before and after the step is the same record.
C22_StoredReceiptImmutable ==
  [][\A k \in DOMAIN receipts \cap DOMAIN receipts' :
       receipts'[k] = receipts[k]]_vars

\* C22 amended: a stored receipt changes only in the step of a saveReceipt
\* call that carries its id, which overwrites it in place, and leaves the
\* store only in the step of a deleteReceipt call for its id; no other
\* operation changes any of its fields.
C22_ChangedOnlyBySaveOfItsId ==
  [][\A k \in DOMAIN receipts :
       /\ k \notin DOMAIN receipts' =>
            \E p \in Procs :
              Settles(p, "deleteReceipt_delete") /\ call[p].id = k
       /\ (k \in DOMAIN receipts' /\ receipts'[k] # receipts[k]) =>
            \E p \in Procs :
              /\ Settles(p, "saveReceipt_put")
              /\ call[p].receipt.id = k
              /\ receipts'[k] = call[p].receipt]_vars

\* C22 witness: a saveReceipt with the id of a stored receipt has succeeded
\* beside another stored receipt
C22_Witness ==
  \E p \in Procs :
    /\ Fulfilled(p, "saveReceipt")
    /\ \E k \in DOMAIN receipts : k # call[p].receipt.id
    /\ Get(receipts, call[p].receipt.id) = call[p].receipt

\* C24: the email of every stored user record is its key and is lower-cased
\* and trimmed; and login, verifySecurityAnswer and resetPassword called with
\* any casing or surrounding white space of a registered email read and
\* write the record stored under the lower-cased, trimmed email.
C24_EmailKeysNormalized ==
  /\ \A k \in DOMAIN users :
       users[k].email = k /\ k = ToLowerCase(Trim(k))
  /\ \A p \in Procs :
       /\ pc[p] \in {"login_compare", "verify_compare"} =>
            local[p] = Get(users, KeyOf(p))
       /\ pc[p] = "reset_updateUser" => local[p].email = KeyOf(p)
       /\ ((Done(p, "login") \/ Done(p, "verifySecurityAnswer")
              \/ Done(p, "resetPassword")) /\ KeyOf(p) \in DOMAIN users) =>
            /\ result[p].error # ErrNotFound
            /\ (result[p].state = "fulfilled" /\ call[p].op # "resetPassword") =>
                 result[p].value = <<users[KeyOf(p)]>>
            /\ Fulfilled(p, "resetPassword") =>
                 users[KeyOf(p)].passwordHash = hashString(call[p].password)

\* C24 witness: a login typed as "A@X.com " has succeeded on the record
\* stored under "a@x.com"
C24_Witness ==
  \E p \in Procs :
    /\ Fulfilled(p, "login")
    /\ call[p].email = Email_A
    /\ result[p].value = <<users[Email_a]>>

\* C25: a resetPassword whose getUser finds no record settles in that step
\* as rejected with the not-found error and writes nothing, and the
\* updateUser step of a resetPassword adds no key to the users store, however
\* the steps of the other callers' register and resetPassword calls fall
\* between them.
C25_ResetNeverCreates ==
  [][\A p \in Procs :
       /\ (pc[p] = "reset_getUser" /\ pc'[p] # pc[p]
            /\ CleanEmail(call[p].email) \notin DOMAIN users) =>
            /\ pc'[p] = "done"
            /\ result'[p] = Rejected(ErrNotFound)
            /\ users' = users
       /\ (pc[p] = "reset_updateUser" /\ pc'[p] # pc[p]) =>
            DOMAIN users' = DOMAIN users]_vars

\* C25 witness: a resetPassword has failed with not-found while another
\* caller's register of the same email waits for its createUser
C25_Witness ==
  \E p, q \in Procs :
    /\ p # q
    /\ Done(p, "resetPassword")
    /\ result[p] = Rejected(ErrNotFound)
    /\ pc[q] = "createUser"
    /\ KeyOf(q) = KeyOf(p)

ReadOps == {"login", "verifySecurityAnswer", "getUser", "getReceiptsByUser"}

\* C26: no step of a login, verifySecurityAnswer, getUser or
\* getReceiptsByUser call, whether the call then succeeds or fails, changes
\* the users store or the receipts store.
C26_ReadsChangeNothing ==
  [][\A p \in Procs :
       (call'[p].op \in ReadOps /\ pc'[p] # pc[p]) =>
         users' = users /\ receipts' = receipts]_vars

\* C26 witness: a login with a wrong password has failed and the account
\* still has the hash of its password
C26_Witness ==
  \E p \in Procs :
    /\ Done(p, "login")
    /\ result[p] = Rejected(ErrPassword)
    /\ users[KeyOf(p)].passwordHash = hashString(curPassword[KeyOf(p)])

\* the digests of the passwords that satisfy the policy
CompliantHashes == {hashString(P) : P \in {Q \in Passwords : Compliant[Q]}}

\* C27: the passwordHash of every stored user is the digest of a password
\* that satisfies the policy.
C27_StoredHashesCompliant ==
  \A k \in DOMAIN users : users[k].passwordHash \in CompliantHashes

\* C27 witness: a resetPassword has stored the hash of its password, after
\* which the stored hash differs from that of the registration in the model
C27_Witness ==
  \E p \in Procs :
    /\ Fulfilled(p, "resetPassword")
    /\ Compliant[call[p].password]
    /\ users[KeyOf(p)].passwordHash = hashString(call[p].password)

\* C21: every receipt the application saves carries a userEmail that is the
\* email of a registered user, and while a user is logged in every receipt of
\* the in-memory list carries that user's email.
C21_ReceiptsScopedToUser ==
  /\ \A k \in DOMAIN receipts \cap uuids :
       /\ "userEmail" \in DOMAIN receipts[k]
       /\ receipts[k].userEmail \in DOMAIN users
  /\ currentUser # Undefined =>
       \A r \in ListItems(receiptsState) :
         /\ "userEmail" \in DOMAIN r
         /\ r.userEmail = currentUser.email

\* the views behind the login
UserViews == {"DASHBOARD", "STORE_DETAIL", "RECEIPT_DETAIL"}

\* C28: whenever the view is DASHBOARD, STORE_DETAIL or RECEIPT_DETAIL a user
\* is logged in, and while no user is logged in the view is AUTH and the
\* in-memory receipts list is empty, in every interleaving of handleLogout with
\* the asynchronous handlers.
C28_ViewsNeedUser ==
  /\ view \in UserViews => currentUser # Undefined
  /\ currentUser = Undefined => view = "AUTH" /\ receiptsState = <<>>

\* handleFileSelect on p ends in its catch in this step
FileSelectFails(p) ==
  /\ handler[p].name = "handleFileSelect"
  /\ handler[p].at # "loadReceipts"
  /\ handler'[p] = NoHandler

\* C29: the step in which handleFileSelect ends after compressImage,
\* analyzeReceiptImage or saveReceipt failed changes neither the store nor the
\* view nor the selected store, and the receipt it was to save is not stored;
\* a receipt enters the store only in a step of the saveReceipt that
\* handleFileSelect calls with the newReceipt built from a returned analysis.
C29_FailedUploadStoresNothing ==
  [][/\ \A p \in Procs :
          FileSelectFails(p) =>
            /\ receipts' = receipts
            /\ view' = view
            /\ selectedStoreName' = selectedStoreName
            /\ handler[p].newReceipt.id \notin DOMAIN receipts'
     /\ \A k \in DOMAIN receipts' \ DOMAIN receipts :
          \E p \in Procs :
            /\ handler[p].name = "handleFileSelect"
            /\ handler[p].at = "saveReceipt"
            /\ handler[p].newReceipt.id = k
            /\ receipts'[k] = handler[p].newReceipt]_vars

\* saveReceipt has failed under handleFileSelect, which is about to resume in
\* its catch
C29_Witness ==
  \E p \in Procs :
    /\ handler[p].name = "handleFileSelect"
    /\ Awaited(p, "saveReceipt")
    /\ result[p].state = "rejected"
    /\ handler[p].newReceipt.id \notin DOMAIN receipts

\* C30: whenever isProcessing is true, it is false again later: the handler
\* that set it clears it when the operations it awaits have settled, with
\* success or with failure.
C30_LoaderComesDown == isProcessing ~> ~isProcessing

\* the loader is up while auth.login has failed and handleLogin has not yet
\* resumed
C30_Witness ==
  \E p \in Procs :
    /\ isProcessing
    /\ handler[p].name = "handleLogin"
    /\ Awaited(p, "login")
    /\ result[p].state = "rejected"

\* C23: every persistence operation completes for its caller: a caller that
\* has requested the open of the database is later given a result or an
\* error, also when the request is blocked.
C23_OpenSettles ==
  \A p \in Procs : (pc[p] = "openDB") ~> (pc[p] = "done")

====
